---- MODULE Spec2Model ----
(***************************************************************************)
(* ATS.ai scoring backend: the batch orchestrator of backend/main.py       *)
(* (analyze_candidates.event_stream, _process_one_candidate,               *)
(* _score_against_all_jds) and the LLM judge of backend/utils/scorer.py    *)
(* (llm_score, score_resume).                                              *)
(*                                                                         *)
(* Python dicts are functions over strings (Get is dict.get).  Scores are  *)
(* kept in tenths of a point (an "ATS Score" of 853 is 85.3).              *)
(*                                                                         *)
(* Several specifications share the module.  Spec drives one /api/analyze  *)
(* request through event_stream with its workers running on the thread     *)
(* pool; SpecLLM drives one score_resume call, its llm_score attempt by    *)
(* attempt; SpecScore is score_resume's record building over a grid of     *)
(* scores; SpecJD is _score_against_all_jds; SpecPool is several           *)
(* score_resume calls sharing _scorer_pool and the client maps; SpecPaths  *)
(* is Spec for a request of either endpoint; SpecTwo is two requests       *)
(* sharing the executor; SpecKw is keyword_score; SpecLive runs a request, *)
(* an llm_score call or the pool under weak fairness.  In Spec             *)
(* the record a worker gets back from scoring is chosen among the records  *)
(* score_resume can build, since it depends only on what the external      *)
(* providers answer.                                                       *)
(***************************************************************************)
EXTENDS Integers, Sequences, FiniteSets, TLC

VARIABLES
    \* ---- one /api/analyze request (main.py) ----
    candidates,     \* main.py:223 list of (name, url, photo)
    total,          \* main.py:221 len(df)
    es_pc,          \* position of the event_stream generator
    batch_start,    \* main.py:236 loop variable
    batch,          \* main.py:237 current slice of candidates
    idx,            \* position inside the inner for loops (239, 261)
    completed,      \* main.py:234
    results,        \* main.py:233
    batch_results,  \* main.py:259 value of asyncio.gather
    events,         \* every SSE event yielded so far, in order
    worker,         \* per candidate: the run of _process_one_candidate on the executor
    finishOrder,    \* history: candidates of the current batch in the order their workers returned
    rounds,         \* history: the candidate names of each dispatch round so far
    \* ---- one score_resume call with its llm_score call (scorer.py) ----
    openai_key, gemini_key,
    llm_pc,         \* position inside llm_score, then inside score_resume
    attempt,        \* scorer.py:119 / 149 loop variable
    calls,          \* history: every provider call made: <<provider, outcome>>
    llm_ret,        \* value returned by llm_score
    kw_ret,      \* scorer.py:179 value returned by keyword_score
    score_ret,      \* value returned by score_resume (Raised when it raised)
    \* ---- one _score_against_all_jds call (main.py) ----
    jd_n,           \* len(jd_texts)
    jd_pc,          \* position inside _score_against_all_jds
    jd_i,           \* main.py:108 position of the loop in jd_texts
    best_score,     \* main.py:105
    best_data,      \* main.py:106
    jd_calls,       \* history: what each score_resume call returned, in call order
    jd_targets,     \* history: the position in jd_texts of the JD each call was given
    jd_ret,         \* value returned by _score_against_all_jds (Raised when it raised)
    \* ---- concurrent score_resume calls on the scorer pool (scorer.py) ----
    sp_pc,          \* per caller: position inside score_resume
    pool_queue,     \* work queue of _scorer_pool: submitted units not yet taken
    pool_thread,    \* per pool thread: the unit it runs and its position in it
    unit_st,        \* per caller and unit ("kw", "llm"): none, queued, running, done
    clients,        \* scorer.py:16-17 _openai_clients and _gemini_clients: api_key -> client
    made,           \* history: per provider, how many clients were constructed
    got,            \* history: per caller and provider, the client llm_score obtained (0: none)
    \* ---- two /api/analyze requests on the one executor (main.py) ----
    rq,             \* per request: candidates, total and the locals of its event_stream
    xw,             \* per request and candidate: the run of _process_one_candidate
    \* ---- one keyword_score call (scorer.py) ----
    kw_pc,          \* position of the call
    jd_keywords,    \* scorer.py:50
    resume_keywords, \* scorer.py:51
    tfidf_sim,      \* scorer.py:56, a double
    kw_value        \* the dict keyword_score returned

batchVars == <<candidates, total, es_pc, batch_start, batch, idx, completed,
               results, batch_results, events, worker, finishOrder, rounds>>
llmVars == <<openai_key, gemini_key, llm_pc, attempt, calls, llm_ret, kw_ret, score_ret>>
jdVars == <<jd_n, jd_pc, jd_i, best_score, best_data, jd_calls, jd_targets, jd_ret>>
poolVars == <<sp_pc, pool_queue, pool_thread, unit_st, clients, made, got>>
twoVars == <<rq, xw>>
kwVars == <<kw_pc, jd_keywords, resume_keywords, tfidf_sim, kw_value>>
nonBatchVars == <<llmVars, jdVars, poolVars, twoVars, kwVars>>
nonLlmVars == <<batchVars, jdVars, poolVars, twoVars, kwVars>>
nonJdVars == <<batchVars, llmVars, poolVars, twoVars, kwVars>>
nonPoolVars == <<batchVars, llmVars, jdVars, twoVars, kwVars>>
nonTwoVars == <<batchVars, llmVars, jdVars, poolVars, kwVars>>
nonKwVars == <<batchVars, llmVars, jdVars, poolVars, twoVars>>
vars == <<candidates, total, es_pc, batch_start, batch, idx, completed,
          results, batch_results, events, worker, finishOrder, rounds,
          openai_key, gemini_key, llm_pc, attempt, calls, llm_ret, kw_ret, score_ret,
          jd_n, jd_pc, jd_i, best_score, best_data, jd_calls, jd_targets, jd_ret,
          sp_pc, pool_queue, pool_thread, unit_st, clients, made, got,
          rq, xw, kw_pc, jd_keywords, resume_keywords, tfidf_sim, kw_value>>

\* ---------------------------------------------------------------- bounds
\* Worker-pool capacity.  main.py:28 sets 15; the model runs the same code
\* with a smaller pool so that several rounds fit in the state space.
BATCH_SIZE == 2
\* Largest number of spreadsheet rows of a request.
MaxCandidates == 5
\* Largest number of job descriptions of a request.
MaxJDs == 3
\* Number of workers that call score_resume at the same time.
PoolCallers == 2
\* Largest number of spreadsheet rows of each of two concurrent requests.
MaxRows == 3
\* Keyword sets are drawn from the first MaxKeywords keywords.
MaxKeywords == 12
\* The scores tried in the blend, in tenths: each base and the MaxScoreOffset
\* tenths above it.
MaxScoreOffset == 10

\* ---------------------------------------------------------------- dicts
Get(d, k, default) == IF k \in DOMAIN d THEN d[k] ELSE default
Pop(d, k) == [x \in DOMAIN d \ {k} |-> d[x]]
Put(d, k, v) == [x \in DOMAIN d \cup {k} |-> IF x = k THEN v ELSE d[x]]
Min(a, b) == IF a < b THEN a ELSE b
None == <<>>

\* ---------------------------------------------------------------- floats
\* Python floats are IEEE-754 doubles, wider than the integers of the model.
\* A natural number is kept as its digits in base 2^LimbBits, lowest first and
\* without leading zeros (<<>> is 0); a double is a sign, such a number and a
\* power of two: (-1)^neg * mant * 2^exp.
LimbBits == 15
LimbBase == 2 ^ LimbBits
\* Significant bits of a double.
MantBits == 53

RECURSIVE LNorm(_)
LNorm(a) ==
    IF a = <<>> THEN <<>>
    ELSE IF a[Len(a)] # 0 THEN a
    ELSE LNorm(SubSeq(a, 1, Len(a) - 1))

RECURSIVE LFromNat(_)
LFromNat(n) == IF n = 0 THEN <<>> ELSE <<n % LimbBase>> \o LFromNat(n \div LimbBase)

RECURSIVE LToNat(_)
LToNat(a) == IF a = <<>> THEN 0 ELSE a[1] + LimbBase * LToNat(Tail(a))

RECURSIVE LAddC(_, _, _)
LAddC(a, b, c) ==
    IF a = <<>> /\ b = <<>> THEN (IF c = 0 THEN <<>> ELSE <<c>>)
    ELSE LET s == (IF a = <<>> THEN 0 ELSE a[1]) + (IF b = <<>> THEN 0 ELSE b[1]) + c
         IN  <<s % LimbBase>>
             \o LAddC(IF a = <<>> THEN <<>> ELSE Tail(a),
                      IF b = <<>> THEN <<>> ELSE Tail(b), s \div LimbBase)
LAdd(a, b) == LAddC(a, b, 0)

RECURSIVE LSubB(_, _, _)
LSubB(a, b, c) ==
    IF a = <<>> THEN <<>>
    ELSE LET d == a[1] - (IF b = <<>> THEN 0 ELSE b[1]) - c
         IN  <<d % LimbBase>>
             \o LSubB(Tail(a), IF b = <<>> THEN <<>> ELSE Tail(b), IF d < 0 THEN 1 ELSE 0)
\* a - b for a >= b
LSub(a, b) == LNorm(LSubB(a, b, 0))

LLess(a, b) ==
    IF Len(a) # Len(b) THEN Len(a) < Len(b)
    ELSE \E i \in 1..Len(a) :
            a[i] < b[i] /\ \A j \in (i + 1)..Len(a) : a[j] = b[j]

RECURSIVE LMulSmallC(_, _, _)
LMulSmallC(a, s, c) ==
    IF a = <<>> THEN (IF c = 0 THEN <<>> ELSE <<c>>)
    ELSE LET p == a[1] * s + c
         IN  <<p % LimbBase>> \o LMulSmallC(Tail(a), s, p \div LimbBase)
\* a * s for a digit s
LMulSmall(a, s) == LNorm(LMulSmallC(a, s, 0))

RECURSIVE LMul(_, _)
LMul(a, b) ==
    IF a = <<>> \/ b = <<>> THEN <<>>
    ELSE LET rest == LMul(Tail(a), b)
         IN  LAdd(LMulSmall(b, a[1]), IF rest = <<>> THEN <<>> ELSE <<0>> \o rest)

\* <<a \div m, a % m>> for a digit m
RECURSIVE LDivSmall(_, _)
LDivSmall(a, m) ==
    IF a = <<>> THEN <<<<>>, 0>>
    ELSE LET hi == LDivSmall(Tail(a), m)
             cur == hi[2] * LimbBase + a[1]
         IN  <<<<cur \div m>> \o hi[1], cur % m>>

RECURSIVE SmallBitLen(_)
SmallBitLen(n) == IF n = 0 THEN 0 ELSE 1 + SmallBitLen(n \div 2)
BitLen(a) == IF a = <<>> THEN 0 ELSE (Len(a) - 1) * LimbBits + SmallBitLen(a[Len(a)])

\* Bit j of a, bit 0 being the lowest.
BitAt(a, j) ==
    IF j \div LimbBits + 1 > Len(a) THEN 0
    ELSE (a[j \div LimbBits + 1] \div 2 ^ (j % LimbBits)) % 2

\* The d lowest bits of a are all 0.
LowBitsZero(a, d) ==
    \A i \in 1..Len(a) :
        /\ i <= d \div LimbBits => a[i] = 0
        /\ i = d \div LimbBits + 1 => a[i] % 2 ^ (d % LimbBits) = 0

\* a \div 2^d
ShiftR(a, d) ==
    LET q == d \div LimbBits
        r == d % LimbBits
    IN  IF Len(a) <= q THEN <<>>
        ELSE LNorm([i \in 1..(Len(a) - q) |->
                      a[i + q] \div 2 ^ r
                      + (IF i + q + 1 <= Len(a)
                         THEN (a[i + q + 1] % 2 ^ r) * 2 ^ (LimbBits - r) ELSE 0)])

\* a * 2^d
ShiftL(a, d) ==
    LET q == d \div LimbBits
        r == d % LimbBits
    IN  IF a = <<>> THEN <<>>
        ELSE LNorm([i \in 1..(Len(a) + q + 1) |->
                      IF i <= q THEN 0
                      ELSE (IF i - q <= Len(a)
                            THEN (a[i - q] % 2 ^ (LimbBits - r)) * 2 ^ r ELSE 0)
                           + (IF i - q >= 2 THEN a[i - q - 1] \div 2 ^ (LimbBits - r) ELSE 0)])

FZero == [neg |-> FALSE, mant |-> <<>>, exp |-> 0]

\* The double nearest to (-1)^neg * (mant + f) * 2^exp, where 0 <= f < 1 and
\* f > 0 exactly when sticky: MantBits significant bits, ties to even.
FlRound(neg, mant, exp, sticky) ==
    IF mant = <<>> THEN FZero
    ELSE IF BitLen(mant) <= MantBits THEN [neg |-> neg, mant |-> mant, exp |-> exp]
    ELSE LET d == BitLen(mant) - MantBits
             kept == ShiftR(mant, d)
             st == sticky \/ ~LowBitsZero(mant, d - 1)
             up == BitAt(mant, d - 1) = 1 /\ (st \/ kept[1] % 2 = 1)
         IN  [neg |-> neg, mant |-> IF up THEN LAdd(kept, <<1>>) ELSE kept, exp |-> exp + d]

\* The double a number of t tenths is read as (float("8.5"), json.loads).
FromTenths(t) ==
    LET q == LDivSmall(ShiftL(LFromNat(IF t < 0 THEN -t ELSE t), 64), 10)
    IN  FlRound(t < 0, LNorm(q[1]), -64, q[2] # 0)

\* x * y
FMul(x, y) == FlRound(x.neg # y.neg, LMul(x.mant, y.mant), x.exp + y.exp, FALSE)

\* x + y
FAdd(x, y) ==
    IF x.mant = <<>> THEN y
    ELSE IF y.mant = <<>> THEN x
    ELSE LET e == IF x.exp < y.exp THEN x.exp ELSE y.exp
             a == ShiftL(x.mant, x.exp - e)
             b == ShiftL(y.mant, y.exp - e)
         IN  IF x.neg = y.neg THEN FlRound(x.neg, LAdd(a, b), e, FALSE)
             ELSE IF LLess(a, b) THEN FlRound(y.neg, LSub(b, a), e, FALSE)
             ELSE FlRound(x.neg, LSub(a, b), e, FALSE)

\* round(x, 1) as a number of tenths: the tenth nearest to the exact value of
\* the double, ties to the even tenth.
FRound1(x) ==
    LET t == LMulSmall(x.mant, 10)
        d == -x.exp
        q == LToNat(ShiftR(t, d))
        mag == IF d <= 0 THEN LToNat(ShiftL(t, -d))
               ELSE IF BitAt(t, d - 1) = 1 /\ (~LowBitsZero(t, d - 1) \/ q % 2 = 1)
               THEN q + 1 ELSE q
    IN  IF x.neg THEN -mag ELSE mag

\* ---------------------------------------------------------------- scorer.py
\* config.py weights, in tenths (0.7 and 0.3).
LLM_WEIGHT == 7
KEYWORD_WEIGHT == 3

\* BlendScore with the two weights exchanged.
BlendScoreSwapped(overall_score, kw_score) ==
    FRound1(FAdd(FMul(FromTenths(overall_score), FromTenths(KEYWORD_WEIGHT)),
                 FMul(FromTenths(kw_score), FromTenths(LLM_WEIGHT))))

\* scorer.py:183: round((overall_score * LLM_WEIGHT) + (kw score * KEYWORD_WEIGHT), 1),
\* scores in tenths, computed in doubles as Python does.
BlendScore(overall_score, kw_score) ==
    FRound1(FAdd(FMul(FromTenths(overall_score), FromTenths(LLM_WEIGHT)),
                 FMul(FromTenths(kw_score), FromTenths(KEYWORD_WEIGHT))))

\* str(v).capitalize() on the recommendation strings a provider can send.
Capitalize(s) ==
    CASE s \in {"yes", "YES", "Yes"} -> "Yes"
      [] s \in {"no", "NO", "No"} -> "No"
      [] s \in {"maybe", "MAYBE", "Maybe"} -> "Maybe"
      [] s = "strong yes" -> "Strong yes"
      [] OTHER -> s

RECURSIVE Join(_)
\* ", ".join(seq)
Join(seq) ==
    IF Len(seq) = 0 THEN ""
    ELSE IF Len(seq) = 1 THEN seq[1]
    ELSE seq[1] \o ", " \o Join(Tail(seq))

\* NormalizeRecommendation without the fallback of scorer.py:187-188.
NormalizeRecommendationAsIs(llm_result) ==
    Capitalize(Get(llm_result, "recommendation", "Maybe"))

\* scorer.py:186-188
NormalizeRecommendation(llm_result) ==
    LET rec == Capitalize(Get(llm_result, "recommendation", "Maybe"))
    IN  IF rec \notin {"Yes", "No", "Maybe"} THEN "Maybe" ELSE rec

\* A JSON number is <<"num", tenths>>; any other JSON value in a numeric
\* position is <<"str", text>> (multiplying it by a float raises TypeError).
IsNum(v) == v[1] = "num"

\* The value score_resume raises instead of returning.
Raised == ("_raised" :> TRUE)
IsRaised(d) == "_raised" \in DOMAIN d

\* scorer.py:182-203, the branch taken when llm_score returned a dict.
ScoreWithLLM(llm_result, kw_result) ==
    LET overall == Get(llm_result, "overall_score", <<"num", 0>>)
        final == BlendScore(overall[2], kw_result["score"])
        rec == NormalizeRecommendation(llm_result)
    IN  IF ~IsNum(overall) THEN Raised
        ELSE
          "ATS Score" :> final
          @@ "Phone Number" :> Get(llm_result, "phone_number", "Not Found")
          @@ "Email" :> Get(llm_result, "email", "Not Found")
          @@ "Photo Link" :> Get(llm_result, "photo_link", "Not Found")
          @@ "Resume Summary" :> Get(llm_result, "summary", "")
          @@ "Missing Requirements" :> Join(Get(llm_result, "missing_requirements", <<>>))
          @@ "Job Description Summary" :> Get(llm_result, "job_description_summary", "")
          @@ "Target Job Role" :> Get(llm_result, "target_job_role", "")
          @@ "Best Fit Role" :> Get(llm_result, "best_fit_role", "")
          @@ "Recommendation" :> rec
          @@ "Status" :> Get(llm_result, "llm_provider", "GPT")
          @@ "Candidate Name Extracted" :> Get(llm_result, "candidate_name", "")

\* scorer.py:204-217, the branch taken when llm_score returned None.
ScoreKeywordOnly(kw_result) ==
    "ATS Score" :> kw_result["score"]
    @@ "Phone Number" :> "Not Found"
    @@ "Email" :> "Not Found"
    @@ "Photo Link" :> "Not Found"
    @@ "Resume Summary" :> "LLMs failed or keys missing. Scored via keywords only."
    @@ "Missing Requirements" :> Join(kw_result["missing_keywords"])
    @@ "Job Description Summary" :> "Not Found"
    @@ "Target Job Role" :> "Not Found"
    @@ "Best Fit Role" :> "Not Found"
    @@ "Recommendation" :> "Maybe"
    @@ "Status" :> "Keyword"

\* score_resume without the test of llm_result.
score_resumeNoFallback(llm_result, kw_result) == ScoreWithLLM(llm_result, kw_result)

\* scorer.py:174-217 after the two futures are joined: `if llm_result:`.
score_resume(llm_result, kw_result) ==
    IF llm_result # None
    THEN ScoreWithLLM(llm_result, kw_result)
    ELSE ScoreKeywordOnly(kw_result)

\* JSON objects a provider can answer with (the fields the prompt asks for,
\* scorer.py:76-88), before llm_score tags them: a complete one; one whose
\* overall_score is not a number; one with a score above 100 and a
\* recommendation outside the three words; one with a score below 0; and one
\* that leaves score, recommendation and role out.
FullPayload ==
    "candidate_name" :> "Ada" @@ "overall_score" :> <<"num", 850>>
    @@ "phone_number" :> "555" @@ "email" :> "a@x" @@ "photo_link" :> "Not Found"
    @@ "summary" :> "s" @@ "missing_requirements" :> <<"go", "sql">>
    @@ "job_description_summary" :> "j" @@ "target_job_role" :> "Engineer"
    @@ "best_fit_role" :> "Engineer" @@ "recommendation" :> "yes"
BadScorePayload ==
    "overall_score" :> <<"str", "high">> @@ "target_job_role" :> "Analyst"
OddPayload ==
    "candidate_name" :> "Bo" @@ "overall_score" :> <<"num", 1500>>
    @@ "target_job_role" :> "Manager" @@ "recommendation" :> "strong yes"
NegativePayload ==
    "candidate_name" :> "Cy" @@ "overall_score" :> <<"num", -500>>
    @@ "target_job_role" :> "Clerk" @@ "recommendation" :> "NO"
SparsePayload == "candidate_name" :> "Di" @@ "summary" :> "s"
LlmPayloads == {FullPayload, BadScorePayload, OddPayload, NegativePayload, SparsePayload}

\* llm_score's tagging of a parsed object (scorer.py:133, 158).
Tagged(payload, provider) == Put(payload, "llm_provider", provider)

\* Values keyword_score can return (scorer.py:59-63).
KwResults ==
    { [score |-> 620, matched_keywords |-> <<"python">>, missing_keywords |-> <<"aws", "sql">>],
      [score |-> 0, matched_keywords |-> <<>>, missing_keywords |-> <<>>] }

\* ---------------------------------------------------------------- main.py
\* main.py:99-102, _score_against_all_jds with exactly one job description;
\* an exception of score_resume passes through.
ScoreSingleJD(score_data) ==
    IF IsRaised(score_data) THEN Raised
    ELSE Put(score_data, "Matched JD", Get(score_data, "Target Job Role", "Single JD"))

\* download_resume's "no file" answer: None, falsy like the empty path.
NoPath == ""

\* FailedRecord with the status written like the other detail fields.
FailedRecordStatusError(name, url, message) ==
    "Candidate Name" :> name
    @@ "Resume Link" :> url
    @@ "ATS Score" :> 0
    @@ "Status" :> "Error"
    @@ "Phone Number" :> "Error"
    @@ "Email" :> "Error"
    @@ "Photo Link" :> "Error"
    @@ "Resume Summary" :> ("Failed: " \o message)
    @@ "Missing Requirements" :> "Error"
    @@ "Job Description Summary" :> "Error"
    @@ "Target Job Role" :> "Error"
    @@ "Best Fit Role" :> "Error"
    @@ "Matched JD" :> "Error"
    @@ "Recommendation" :> "No"
    @@ "_ok" :> FALSE

\* main.py:142-158, the record built by the except branch.
FailedRecord(name, url, message) ==
    "Candidate Name" :> name
    @@ "Resume Link" :> url
    @@ "ATS Score" :> 0
    @@ "Status" :> "Failed"
    @@ "Phone Number" :> "Error"
    @@ "Email" :> "Error"
    @@ "Photo Link" :> "Error"
    @@ "Resume Summary" :> ("Failed: " \o message)
    @@ "Missing Requirements" :> "Error"
    @@ "Job Description Summary" :> "Error"
    @@ "Target Job Role" :> "Error"
    @@ "Best Fit Role" :> "Error"
    @@ "Matched JD" :> "Error"
    @@ "Recommendation" :> "No"
    @@ "_ok" :> FALSE

\* main.py:139: {"Candidate Name": name, "Resume Link": url, **score_data, "_ok": True}
OkRecord(name, url, score_data) ==
    [k \in {"Candidate Name", "Resume Link", "_ok"} \cup DOMAIN score_data |->
        IF k = "_ok" THEN TRUE
        ELSE IF k \in DOMAIN score_data THEN score_data[k]
        ELSE IF k = "Candidate Name" THEN name
        ELSE url]

\* main.py:124-158 as a function of what the three calls answered:
\* file_path from download_resume, resume_text from extract_text and
\* score_data from _score_against_all_jds (Raised when it raised).
_process_one_candidate(name, url, file_path, resume_text, score_data) ==
    IF file_path = NoPath
    THEN FailedRecord(name, url, "Failed to download resume file.")
    ELSE IF resume_text = ""
    THEN FailedRecord(name, url, "No text could be extracted (possibly a scanned image).")
    ELSE IF IsRaised(score_data)
    THEN FailedRecord(name, url, "TypeError")
    ELSE OkRecord(name, url, score_data)

\* main.py:327 builds (name, tmp_path) for an uploaded file, main.py:228
\* (name, url, photo) for a spreadsheet row.
IsUpload(cand) == Len(cand) = 2

\* main.py:335-366 as a function of what the two calls answered: resume_text
\* from extract_text and score_data from _score_against_all_jds (Raised
\* when it raised).  The name the LLM read replaces the file's name
\* (344-346) and the key is popped from the record.
_process_local_resume(name, file_path, resume_text, score_data) ==
    IF resume_text = ""
    THEN FailedRecord(name, "Uploaded: " \o name, "No text could be extracted from the file.")
    ELSE IF IsRaised(score_data)
    THEN FailedRecord(name, "Uploaded: " \o name, "TypeError")
    ELSE LET extracted_name == Get(score_data, "Candidate Name Extracted", "")
             shown == IF extracted_name \notin {"Not Found", ""} THEN extracted_name ELSE name
         IN  OkRecord(shown, "Uploaded: " \o shown, Pop(score_data, "Candidate Name Extracted"))

\* What llm_score can hand score_resume for row i when it runs inside a
\* request: rows take turns between a primary that answers, an outage and a
\* fallback that answers.  The primary's answer is complete or has an
\* overall_score that is no number; the fallback's has a score above 100 and
\* an unknown recommendation, or leaves both out.
LlmResultsFor(i) ==
    IF i % 3 = 1 THEN {Tagged(FullPayload, "GPT"), Tagged(BadScorePayload, "GPT")}
    ELSE IF i % 3 = 2 THEN {None}
    ELSE {Tagged(OddPayload, "Gemini"), Tagged(SparsePayload, "Gemini")}

\* main.py:137 in a worker: what llm_score returned inside score_resume (llm)
\* and what _score_against_all_jds returned for it (data; Raised for its
\* exception), for every row's turn.
WorkerScorings ==
    { [llm |-> l, data |-> ScoreSingleJD(score_resume(l, k))] :
        l \in UNION {LlmResultsFor(i) : i \in 1..3},
        k \in {kw \in KwResults : kw.score > 0} }

\* What scoring can come to in the worker of row i.
ScoreOutcomes(i) == {o \in WorkerScorings : o.llm \in LlmResultsFor(i)}

\* main.py:223-228: one (name, url, photo) per spreadsheet row.  Rows are
\* named by position (main.py:225); every third row has no photo cell and
\* every third one holds the text pandas prints for a missing value.
CandidateRow(i) ==
    << "Candidate " \o ToString(i),
       "http://host/cv" \o ToString(i),
       IF i % 3 = 2 THEN "photo" \o ToString(i) ELSE IF i % 3 = 0 THEN "nan" ELSE "" >>

\* main.py:317-327: one (name, tmp_path) per uploaded resume file, the name
\* being the file name without its extension.
UploadedFile(i) == << "cv " \o ToString(i), "/tmp/upload" \o ToString(i) \o ".pdf" >>

\* BatchSlice with the slice's end one short.
BatchSliceShort(cands, start) ==
    SubSeq(cands, start + 1, Min(start + BATCH_SIZE - 1, Len(cands)))

\* main.py:237: candidates[batch_start : batch_start + BATCH_SIZE]
BatchSlice(cands, start) == SubSeq(cands, start + 1, Min(start + BATCH_SIZE, Len(cands)))

\* NextBatchStart with a step one short, so that rounds overlap.
NextBatchStartOverlap(start) == start + BATCH_SIZE - 1

\* main.py:236: the next value of range(0, total, BATCH_SIZE)
NextBatchStart(start) == start + BATCH_SIZE

\* ProgressEvent counting from 0.
ProgressEventZeroBased(current, tot, name) ==
    "type" :> "progress" @@ "current" :> current - 1 @@ "total" :> tot
    @@ "candidate" :> name @@ "status" :> "processing"

\* main.py:241-247
ProgressEvent(current, tot, name) ==
    "type" :> "progress" @@ "current" :> current @@ "total" :> tot
    @@ "candidate" :> name @@ "status" :> "processing"

\* main.py:265: batch[i][2] if len(batch[i]) > 2 else "".  The upload path's
\* loop (404-406) has no photo step, which is InjectPhoto with "".
PhotoFromSheet(cand) == IF Len(cand) > 2 THEN cand[3] ELSE ""

\* InjectPhoto without the test of main.py:266.
InjectPhotoAlways(result, photo_from_sheet) == Put(result, "Photo Link", photo_from_sheet)

\* main.py:265-267
InjectPhoto(result, photo_from_sheet) ==
    IF photo_from_sheet # "" /\ photo_from_sheet \notin {"nan", "None", ""}
    THEN Put(result, "Photo Link", photo_from_sheet)
    ELSE result

\* main.py:271-279
ResultEvent(result, ok, current, tot) ==
    "type" :> "result" @@ "current" :> current @@ "total" :> tot
    @@ "candidate" :> result["Candidate Name"]
    @@ "score" :> Get(result, "ATS Score", 0)
    @@ "status" :> (IF ok THEN "complete" ELSE "failed")
    @@ "data" :> result

\* AppendResult as results.insert(0, result).
PrependResult(res, result) == <<result>> \o res

\* main.py:269: results.append(result)
AppendResult(res, result) == Append(res, result)

\* LoopEnds one item early.
LoopEndsEarly(i, seq) == i >= Len(seq) - 1

\* main.py:239, 261: a `for ... in seq` loop leaves after the turn on its last item.
LoopEnds(i, seq) == i = Len(seq)

\* DoneEvent carrying the last round's batch_results instead of results.
DoneEventLastBatch(tot, res) ==
    "type" :> "done" @@ "total" :> tot @@ "results" :> batch_results

\* main.py:284
DoneEvent(tot, res) == "type" :> "done" @@ "total" :> tot @@ "results" :> res

\* Position of candidates[start + j] in the whole input (1-based).
CandOf(start, j) == start + j

\* BatchMembers as every candidate from batch_start on.
BatchMembersRest == {i \in DOMAIN worker : i > batch_start}

\* The candidates handed to the executor in the current round.
BatchMembers == {CandOf(batch_start, j) : j \in 1..Len(batch)}

\* fate, llm and steps are history: which call of the pipeline failed ("none"
\* while none has), what llm_score returned during scoring, and the calls the
\* worker made so far, in order.
IdleWorker ==
    [st |-> "idle", pc |-> "none", ret |-> None, runs |-> 0, fate |-> "none", llm |-> None,
     steps |-> <<>>]

InFlight == {i \in DOMAIN worker : worker[i].st \in {"queued", "running"}}
Running == {i \in DOMAIN worker : worker[i].st = "running"}

\* main.py:259: asyncio.gather resumes the generator once every future of the
\* round is done ...
GatherReady == \A i \in BatchMembers : worker[i].st = "done"

\* gather returning the values in the order the futures completed.
gatherAsCompleted(futs) == [j \in 1..Len(futs) |-> worker[finishOrder[j]].ret]

\* ... and returns the values in the order the futures were passed.
gather(futs) == [j \in 1..Len(futs) |-> worker[futs[j]].ret]

InitLLMIdle ==
    /\ openai_key = "" /\ gemini_key = ""
    /\ llm_pc = "idle" /\ attempt = 0 /\ calls = <<>> /\ llm_ret = None
    /\ kw_ret = None /\ score_ret = None

InitJDIdle ==
    /\ jd_n = 0 /\ jd_pc = "idle" /\ jd_i = 0 /\ best_score = 0
    /\ best_data = None /\ jd_calls = <<>> /\ jd_targets = <<>> /\ jd_ret = None

InitPoolIdle ==
    /\ sp_pc = <<>> /\ pool_queue = <<>> /\ pool_thread = <<>> /\ unit_st = <<>>
    /\ clients = <<>> /\ made = <<>> /\ got = <<>>

InitTwoIdle == rq = <<>> /\ xw = <<>>

InitKwIdle ==
    /\ kw_pc = "idle" /\ jd_keywords = {} /\ resume_keywords = {}
    /\ tfidf_sim = None /\ kw_value = None

Init ==
    /\ total \in 0..MaxCandidates
    /\ candidates = [i \in 1..total |-> CandidateRow(i)]
    /\ es_pc = "loop"
    /\ batch_start = 0
    /\ batch = <<>>
    /\ idx = 0
    /\ completed = 0
    /\ results = <<>>
    /\ batch_results = <<>>
    /\ events = <<>>
    /\ worker = [i \in 1..total |-> IdleWorker]
    /\ finishOrder = <<>>
    /\ rounds = <<>>
    /\ InitLLMIdle
    /\ InitJDIdle
    /\ InitPoolIdle
    /\ InitTwoIdle
    /\ InitKwIdle

\* main.py:236-237: head of `for batch_start in range(0, total, BATCH_SIZE)`.
BatchLoop ==
    /\ es_pc = "loop"
    /\ IF batch_start < total
       THEN /\ batch' = BatchSlice(candidates, batch_start)
            /\ idx' = 1
            /\ es_pc' = "progress"
       ELSE /\ es_pc' = "done"
            /\ UNCHANGED <<batch, idx>>
    /\ UNCHANGED <<candidates, total, batch_start, completed, results,
                   batch_results, events, worker, finishOrder, rounds>>
    /\ UNCHANGED nonBatchVars

\* main.py:239-248: one turn of the progress loop, up to its yield.
EmitProgress ==
    /\ es_pc = "progress"
    /\ idx <= Len(batch)
    /\ completed' = completed + 1
    /\ events' = Append(events, ProgressEvent(completed + 1, total, batch[idx][1]))
    /\ idx' = idx + 1
    /\ es_pc' = IF LoopEnds(idx, batch) THEN "dispatch" ELSE "progress"
    /\ UNCHANGED <<candidates, total, batch_start, batch, results,
                   batch_results, worker, finishOrder, rounds>>
    /\ UNCHANGED nonBatchVars

\* main.py:250-257: one run_in_executor per candidate of the batch.
Dispatch ==
    /\ es_pc = "dispatch"
    /\ worker' = [i \in DOMAIN worker |->
                    IF i \in BatchMembers
                    THEN [worker[i] EXCEPT !.st = "queued", !.pc = "none", !.ret = None,
                                           !.fate = "none", !.llm = None,
                                           !.steps = <<>>]
                    ELSE worker[i]]
    /\ finishOrder' = <<>>
    /\ rounds' = Append(rounds, [j \in 1..Len(batch) |-> batch[j][1]])
    /\ es_pc' = "gather"
    /\ UNCHANGED <<candidates, total, batch_start, batch, idx, completed,
                   results, batch_results, events>>
    /\ UNCHANGED nonBatchVars

\* A pool thread takes the queued call (main.py:29: max_workers threads):
\* _process_one_candidate begins with the download (129),
\* _process_local_resume with the extraction (337).
WorkerStart(i) ==
    /\ worker[i].st = "queued"
    /\ Cardinality(Running) < BATCH_SIZE
    /\ worker' = [worker EXCEPT ![i].st = "running",
                                ![i].pc = IF IsUpload(candidates[i]) THEN "extract"
                                          ELSE "download",
                                ![i].runs = @ + 1]
    /\ UNCHANGED <<candidates, total, es_pc, batch_start, batch, idx, completed,
                   results, batch_results, events, finishOrder, rounds>>
    /\ UNCHANGED nonBatchVars

\* The value the worker of candidate i returns, given what its calls answered.
WorkerReturn(i, file_path, resume_text, score_data) ==
    IF IsUpload(candidates[i])
    THEN _process_local_resume(candidates[i][1], candidates[i][2], resume_text, score_data)
    ELSE _process_one_candidate(candidates[i][1], candidates[i][2], file_path,
                                resume_text, score_data)

Finish(i, call, ret, fate, llm) ==
    /\ worker' = [worker EXCEPT ![i].st = "done", ![i].pc = "none", ![i].ret = ret,
                                ![i].fate = fate, ![i].llm = llm,
                                ![i].steps = Append(@, call)]
    /\ finishOrder' = Append(finishOrder, i)

\* WorkerDownload without the raise of main.py:130-131: the worker notes the
\* failed download and goes on to extract_text.
WorkerDownloadGoesOn(i) ==
    /\ worker[i].st = "running" /\ worker[i].pc = "download"
    /\ \E file_path \in {NoPath, "/tmp/ats_downloads/resume.pdf"} :
         worker' = [worker EXCEPT ![i].pc = "extract",
                                  ![i].fate = IF file_path = NoPath THEN "download" ELSE @,
                                  ![i].steps = Append(@, "download_resume")]
    /\ UNCHANGED <<candidates, total, es_pc, batch_start, batch, idx, completed,
                   results, batch_results, events, finishOrder, rounds>>
    /\ UNCHANGED nonBatchVars

\* main.py:129-131
WorkerDownload(i) ==
    /\ worker[i].st = "running" /\ worker[i].pc = "download"
    /\ \E file_path \in {NoPath, "/tmp/ats_downloads/resume.pdf"} :
         IF file_path = NoPath
         THEN Finish(i, "download_resume", WorkerReturn(i, file_path, "", Raised),
                     "download", None)
         ELSE /\ worker' = [worker EXCEPT ![i].pc = "extract",
                                          ![i].steps = Append(@, "download_resume")]
              /\ UNCHANGED finishOrder
    /\ UNCHANGED <<candidates, total, es_pc, batch_start, batch, idx, completed,
                   results, batch_results, events, rounds>>
    /\ UNCHANGED nonBatchVars

\* main.py:133-135, 337-339
WorkerExtract(i) ==
    /\ worker[i].st = "running" /\ worker[i].pc = "extract"
    /\ \E resume_text \in {"", "resume text"} :
         IF resume_text = ""
         THEN Finish(i, "extract_text",
                     WorkerReturn(i, "/tmp/ats_downloads/resume.pdf", resume_text, Raised),
                     "extract", None)
         ELSE /\ worker' = [worker EXCEPT ![i].pc = "score",
                                          ![i].steps = Append(@, "extract_text")]
              /\ UNCHANGED finishOrder
    /\ UNCHANGED <<candidates, total, es_pc, batch_start, batch, idx, completed,
                   results, batch_results, events, rounds>>
    /\ UNCHANGED nonBatchVars

\* main.py:137-158, 341-366
WorkerScore(i) ==
    /\ worker[i].st = "running" /\ worker[i].pc = "score"
    /\ \E o \in ScoreOutcomes(i) :
         Finish(i, "_score_against_all_jds",
                WorkerReturn(i, "/tmp/ats_downloads/resume.pdf", "resume text", o.data),
                IF IsRaised(o.data) THEN "score" ELSE "none", o.llm)
    /\ UNCHANGED <<candidates, total, es_pc, batch_start, batch, idx, completed,
                   results, batch_results, events, rounds>>
    /\ UNCHANGED nonBatchVars

\* main.py:259: batch_results = await asyncio.gather(*futures)
Gather ==
    /\ es_pc = "gather"
    /\ GatherReady
    /\ batch_results' = gather([j \in 1..Len(batch) |-> CandOf(batch_start, j)])
    /\ idx' = 1
    /\ es_pc' = "results"
    /\ UNCHANGED <<candidates, total, batch_start, batch, completed, results,
                   events, worker, finishOrder, rounds>>
    /\ UNCHANGED nonBatchVars

\* main.py:261-280, 404-417: one turn of the result loop, up to its yield.
EmitResult ==
    /\ es_pc = "results"
    /\ idx <= Len(batch_results)
    /\ LET raw == batch_results[idx]
           ok == Get(raw, "_ok", FALSE)
           result == InjectPhoto(Pop(raw, "_ok"), PhotoFromSheet(batch[idx]))
       IN  /\ results' = AppendResult(results, result)
           /\ events' = Append(events, ResultEvent(result, ok, Len(results) + 1, total))
    /\ idx' = idx + 1
    /\ es_pc' = IF LoopEnds(idx, batch_results) THEN "sleep" ELSE "results"
    /\ UNCHANGED <<candidates, total, batch_start, batch, completed,
                   batch_results, worker, finishOrder, rounds>>
    /\ UNCHANGED nonBatchVars

\* main.py:282 and the step of the for loop.
BatchSleep ==
    /\ es_pc = "sleep"
    /\ batch_start' = NextBatchStart(batch_start)
    /\ es_pc' = "loop"
    /\ UNCHANGED <<candidates, total, batch, idx, completed, results,
                   batch_results, events, worker, finishOrder, rounds>>
    /\ UNCHANGED nonBatchVars

\* main.py:284-285
EmitDone ==
    /\ es_pc = "done"
    /\ events' = Append(events, DoneEvent(total, results))
    /\ es_pc' = "closed"
    /\ UNCHANGED <<candidates, total, batch_start, batch, idx, completed,
                   results, batch_results, worker, finishOrder, rounds>>
    /\ UNCHANGED nonBatchVars

Next ==
    \/ BatchLoop
    \/ EmitProgress
    \/ Dispatch
    \/ \E i \in DOMAIN worker : WorkerStart(i)
    \/ \E i \in DOMAIN worker : WorkerDownload(i)
    \/ \E i \in DOMAIN worker : WorkerExtract(i)
    \/ \E i \in DOMAIN worker : WorkerScore(i)
    \/ Gather
    \/ EmitResult
    \/ BatchSleep
    \/ EmitDone

Spec == Init /\ [][Next]_vars

\* One /api/analyze-direct request: at least one uploaded file (main.py:329-332)
\* and the same generator (374-422).
InitUpload ==
    /\ total \in 1..MaxCandidates
    /\ candidates = [i \in 1..total |-> UploadedFile(i)]
    /\ es_pc = "loop"
    /\ batch_start = 0
    /\ batch = <<>>
    /\ idx = 0
    /\ completed = 0
    /\ results = <<>>
    /\ batch_results = <<>>
    /\ events = <<>>
    /\ worker = [i \in 1..total |-> IdleWorker]
    /\ finishOrder = <<>>
    /\ rounds = <<>>
    /\ InitLLMIdle
    /\ InitJDIdle
    /\ InitPoolIdle
    /\ InitTwoIdle
    /\ InitKwIdle

\* A request of either endpoint.
InitPaths == Init \/ InitUpload

SpecPaths == InitPaths /\ [][Next]_vars

\* ---------------------------------------------------------------- llm_score
\* Max retries per LLM provider before falling through (scorer.py:111).
_MAX_RETRIES == 2

\* str(e).lower() of exceptions a provider call can raise ("request timed
\* out." is the text of the OpenAI client's timeout error).
ErrorMessages ==
    {"rate limit exceeded", "error code: 429", "request timeout", "request timed out.",
     "server overloaded", "quota exceeded", "resource exhausted", "invalid api key"}

\* str(e).lower() of what json.loads raises for a response that is no JSON;
\* the message ends with the offending position, whatever its digits.
JsonDecodeMessages ==
    {"expecting value: line 1 column 1 (char 0)",
     "unterminated string starting at: line 1 column 430 (char 429)"}

\* `sub in err_str` for the substrings scorer.py:137 and 162 look for.
Contains(err_str, sub) ==
    CASE sub = "rate" -> err_str = "rate limit exceeded"
      [] sub = "429" -> err_str \in {"error code: 429",
                                     "unterminated string starting at: line 1 column 430 (char 429)"}
      [] sub = "timeout" -> err_str = "request timeout"
      [] sub = "overloaded" -> err_str = "server overloaded"
      [] sub = "quota" -> err_str = "quota exceeded"
      [] sub = "resource" -> err_str = "resource exhausted"
      [] OTHER -> FALSE

\* What one provider call can end in, seen from the except clause: a response
\* holding a JSON object ("ok"), a response json.loads rejects ("unparsable"),
\* or an exception of the client ("error").
ProviderOutcomes ==
    {[kind |-> "ok", payload |-> p] : p \in LlmPayloads}
    \cup {[kind |-> "unparsable", err |-> m] : m \in JsonDecodeMessages}
    \cup {[kind |-> "error", err |-> m] : m \in ErrorMessages}

\* scorer.py:137
OpenAIRetryable(err_str) ==
    \/ Contains(err_str, "rate") \/ Contains(err_str, "429")
    \/ Contains(err_str, "timeout") \/ Contains(err_str, "overloaded")

\* scorer.py:162
GeminiRetryable(err_str) ==
    \/ Contains(err_str, "rate") \/ Contains(err_str, "429")
    \/ Contains(err_str, "quota") \/ Contains(err_str, "resource")

\* RetryAllowed one short.
RetryAllowedOneShort(att) == att < _MAX_RETRIES - 1

\* scorer.py:138, 163: `attempt < _MAX_RETRIES`
RetryAllowed(att) == att < _MAX_RETRIES

\* scorer.py:119, 149: `for attempt in range(_MAX_RETRIES + 1)` has a next turn.
HasNextAttempt(att) == att + 1 < _MAX_RETRIES + 1

\* ProviderTag with the primary's tag pasted into the fallback's block.
ProviderTagPasted(provider) == "GPT"

\* scorer.py:133, 158: the tag of each provider.
ProviderTag(provider) == IF provider = "openai" THEN "GPT" ELSE "Gemini"

InitBatchIdle ==
    /\ total = 0 /\ candidates = <<>> /\ es_pc = "idle" /\ batch_start = 0
    /\ batch = <<>> /\ idx = 0 /\ completed = 0 /\ results = <<>>
    /\ batch_results = <<>> /\ events = <<>> /\ worker = <<>>
    /\ finishOrder = <<>> /\ rounds = <<>>

InitLLM ==
    /\ InitBatchIdle
    /\ InitJDIdle
    /\ InitPoolIdle
    /\ InitTwoIdle
    /\ InitKwIdle
    /\ openai_key \in {"", "sk-1"}
    /\ gemini_key \in {"", "g-1"}
    /\ llm_pc = "entry"
    /\ attempt = 0
    /\ calls = <<>>
    /\ llm_ret = None
    /\ kw_ret \in KwResults
    /\ score_ret = None

\* scorer.py:146-148, 171: what follows the primary's block.
EnterGemini ==
    IF gemini_key # ""
    THEN llm_pc' = "gemini" /\ attempt' = 0 /\ llm_ret' = None
    ELSE llm_pc' = "returned" /\ attempt' = attempt /\ llm_ret' = None

\* scorer.py:114-119.  _get_openai_client and _get_gemini_client are taken to
\* return a client (the constructors accept any non-empty key).
LlmEnter ==
    /\ llm_pc = "entry"
    /\ IF openai_key # ""
       THEN llm_pc' = "openai" /\ attempt' = 0 /\ llm_ret' = None
       ELSE EnterGemini
    /\ UNCHANGED <<openai_key, gemini_key, calls, kw_ret, score_ret>>
    /\ UNCHANGED nonLlmVars

\* scorer.py:120-144: one turn of the primary's loop.
OpenAIAttempt ==
    /\ llm_pc = "openai"
    /\ \E out \in ProviderOutcomes :
        /\ calls' = Append(calls, [provider |-> "openai", attempt |-> attempt, out |-> out])
        /\ IF out.kind = "ok"
           THEN /\ llm_ret' = Tagged(out.payload, ProviderTag("openai"))
                /\ llm_pc' = "returned"
                /\ attempt' = attempt
           ELSE IF OpenAIRetryable(out.err) /\ RetryAllowed(attempt)
           THEN IF HasNextAttempt(attempt)
                THEN llm_pc' = "openai" /\ attempt' = attempt + 1 /\ llm_ret' = None
                ELSE EnterGemini
           ELSE EnterGemini
    /\ UNCHANGED <<openai_key, gemini_key, kw_ret, score_ret>>
    /\ UNCHANGED nonLlmVars

\* scorer.py:150-171: one turn of the fallback's loop.
GeminiAttempt ==
    /\ llm_pc = "gemini"
    /\ \E out \in ProviderOutcomes :
        /\ calls' = Append(calls, [provider |-> "gemini", attempt |-> attempt, out |-> out])
        /\ IF out.kind = "ok"
           THEN /\ llm_ret' = Tagged(out.payload, ProviderTag("gemini"))
                /\ llm_pc' = "returned"
                /\ attempt' = attempt
           ELSE IF GeminiRetryable(out.err) /\ RetryAllowed(attempt) /\ HasNextAttempt(attempt)
           THEN llm_pc' = "gemini" /\ attempt' = attempt + 1 /\ llm_ret' = None
           ELSE llm_pc' = "returned" /\ attempt' = attempt /\ llm_ret' = None
    /\ UNCHANGED <<openai_key, gemini_key, kw_ret, score_ret>>
    /\ UNCHANGED nonLlmVars

\* scorer.py:179-217: both futures are joined and the record is built.
ScoreResumeReturn ==
    /\ llm_pc = "returned"
    /\ score_ret' = score_resume(llm_ret, kw_ret)
    /\ llm_pc' = "scored"
    /\ UNCHANGED <<openai_key, gemini_key, attempt, calls, llm_ret, kw_ret>>
    /\ UNCHANGED nonLlmVars

NextLLM == LlmEnter \/ OpenAIAttempt \/ GeminiAttempt \/ ScoreResumeReturn

SpecLLM == InitLLM /\ [][NextLLM]_vars

\* ---------------------------------------------------------------- score_resume alone
\* One score_resume call whose two futures have returned: llm_score with an
\* object holding a score of the grid or with None, keyword_score with a score
\* of the grid.
ScoreGrid == {b + d : b \in {0, 245, 500, 850, 990}, d \in 0..MaxScoreOffset}

InitScore ==
    /\ InitBatchIdle
    /\ InitJDIdle
    /\ InitPoolIdle
    /\ InitTwoIdle
    /\ InitKwIdle
    /\ llm_pc = "returned"
    /\ attempt = 0
    /\ \/ /\ openai_key = "" /\ gemini_key = ""
          /\ calls = <<>>
          /\ llm_ret = None
       \/ \E l \in ScoreGrid :
            LET payload == "overall_score" :> <<"num", l>>
            IN  /\ openai_key = "sk-1" /\ gemini_key = ""
                /\ calls = <<[provider |-> "openai", attempt |-> 0,
                              out |-> [kind |-> "ok", payload |-> payload]]>>
                /\ llm_ret = Tagged(payload, ProviderTag("openai"))
    /\ kw_ret \in {[score |-> k, matched_keywords |-> <<>>, missing_keywords |-> <<>>] :
                      k \in ScoreGrid}
    /\ score_ret = None

NextScore == ScoreResumeReturn

SpecScore == InitScore /\ [][NextScore]_vars

\* ---------------------------------------------------------------- _score_against_all_jds
\* What llm_score can return to score_resume.
LlmResults == {None} \cup {Tagged(p, "GPT") : p \in LlmPayloads}

\* What one score_resume call can return to _score_against_all_jds: a record,
\* or Raised for its exception.
ScoreResumeOutcomes == {score_resume(l, k) : l \in LlmResults, k \in KwResults}

\* main.py:110: score_data.get("ATS Score", 0) or 0
AtsOf(score_data) ==
    LET ats == Get(score_data, "ATS Score", 0)
    IN  IF ats = 0 THEN 0 ELSE ats

\* main.py:119
LabelBest(data) == Put(data, "Matched JD", Get(data, "Target Job Role", "N/A"))

InitJD ==
    /\ InitBatchIdle
    /\ InitLLMIdle
    /\ InitPoolIdle
    /\ InitTwoIdle
    /\ InitKwIdle
    /\ jd_n \in 1..MaxJDs
    /\ jd_pc = "entry"
    /\ jd_i = 0
    /\ best_score = 0
    /\ best_data = None
    /\ jd_calls = <<>>
    /\ jd_targets = <<>>
    /\ jd_ret = None

\* main.py:99, 105-108
JdEnter ==
    /\ jd_pc = "entry"
    /\ IF jd_n = 1
       THEN jd_pc' = "single" /\ UNCHANGED <<jd_i, best_score, best_data>>
       ELSE jd_pc' = "loop" /\ jd_i' = 1 /\ best_score' = -10 /\ best_data' = None
    /\ UNCHANGED <<jd_n, jd_calls, jd_targets, jd_ret>>
    /\ UNCHANGED nonJdVars

\* main.py:100-102
JdSingle ==
    /\ jd_pc = "single"
    /\ \E score_data \in ScoreResumeOutcomes :
         /\ jd_calls' = Append(jd_calls, score_data)
         /\ jd_ret' = ScoreSingleJD(score_data)
    /\ jd_targets' = Append(jd_targets, 1)
    /\ jd_pc' = "returned"
    /\ UNCHANGED <<jd_n, jd_i, best_score, best_data>>
    /\ UNCHANGED nonJdVars

\* main.py:108-114: one turn of `for jd in jd_texts`.
JdLoopTurn ==
    /\ jd_pc = "loop"
    /\ jd_targets' = Append(jd_targets, jd_i)
    /\ \E score_data \in ScoreResumeOutcomes :
         /\ jd_calls' = Append(jd_calls, score_data)
         /\ IF IsRaised(score_data)
            THEN /\ jd_ret' = Raised
                 /\ jd_pc' = "returned"
                 /\ UNCHANGED <<jd_i, best_score, best_data>>
            ELSE /\ IF AtsOf(score_data) > best_score
                    THEN best_score' = AtsOf(score_data) /\ best_data' = score_data
                    ELSE UNCHANGED <<best_score, best_data>>
                 /\ jd_i' = jd_i + 1
                 /\ jd_pc' = IF jd_i = jd_n THEN "after" ELSE "loop"
                 /\ UNCHANGED jd_ret
    /\ UNCHANGED jd_n
    /\ UNCHANGED nonJdVars

\* main.py:116-120
JdFinish ==
    /\ jd_pc = "after"
    /\ IF best_data = None
       THEN /\ jd_targets' = Append(jd_targets, 1)
            /\ \E score_data \in ScoreResumeOutcomes :
                  /\ jd_calls' = Append(jd_calls, score_data)
                  /\ IF IsRaised(score_data)
                     THEN jd_ret' = Raised /\ UNCHANGED best_data
                     ELSE jd_ret' = LabelBest(score_data) /\ best_data' = score_data
       ELSE /\ jd_ret' = LabelBest(best_data)
            /\ UNCHANGED <<jd_calls, jd_targets, best_data>>
    /\ jd_pc' = "returned"
    /\ UNCHANGED <<jd_n, jd_i, best_score>>
    /\ UNCHANGED nonJdVars

NextJD == JdEnter \/ JdSingle \/ JdLoopTurn \/ JdFinish

SpecJD == InitJD /\ [][NextJD]_vars

\* ---------------------------------------------------------------- _scorer_pool
\* Several workers inside score_resume at once.  Each submits its keyword
\* unit and then its LLM unit to the one process-wide _scorer_pool and
\* blocks on both futures.  The pool's threads take units from the queue in
\* submission order.  An LLM unit walks llm_score: the client lookup of each
\* provider is a read of the process-wide map, then (when the key was
\* missing) a construction and a store, then a second read; nothing in
\* scorer.py orders these steps between two threads.  All callers belong to
\* requests that carry the same two keys.

\* scorer.py:29 ThreadPoolExecutor(max_workers=2)
ScorerPoolThreads == 2
Callers == 1..PoolCallers
PoolThreads == 1..ScorerPoolThreads
Providers == {"openai", "gemini"}
PoolKey(prov) == IF prov = "openai" THEN "sk-1" ELSE "g-1"

IdleThread == [c |-> 0, unit |-> "none", pc |-> "idle", prov |-> "none"]

InitPool ==
    /\ InitBatchIdle
    /\ InitLLMIdle
    /\ InitJDIdle
    /\ InitTwoIdle
    /\ InitKwIdle
    /\ sp_pc = [c \in Callers |-> "submit_kw"]
    /\ pool_queue = <<>>
    /\ pool_thread = [t \in PoolThreads |-> IdleThread]
    /\ unit_st = [c \in Callers |-> [kw |-> "none", llm |-> "none"]]
    /\ clients = [p \in Providers |-> <<>>]
    /\ made = [p \in Providers |-> 0]
    /\ got = [c \in Callers |-> [p \in Providers |-> 0]]

\* scorer.py:176 kw_future = _scorer_pool.submit(keyword_score, ...)
SubmitKw(c) ==
    /\ sp_pc[c] = "submit_kw"
    /\ pool_queue' = Append(pool_queue, <<c, "kw">>)
    /\ unit_st' = [unit_st EXCEPT ![c].kw = "queued"]
    /\ sp_pc' = [sp_pc EXCEPT ![c] = "submit_llm"]
    /\ UNCHANGED <<pool_thread, clients, made, got>>
    /\ UNCHANGED nonPoolVars

\* scorer.py:177 llm_future = _scorer_pool.submit(llm_score, ...)
SubmitLlm(c) ==
    /\ sp_pc[c] = "submit_llm"
    /\ pool_queue' = Append(pool_queue, <<c, "llm">>)
    /\ unit_st' = [unit_st EXCEPT ![c].llm = "queued"]
    /\ sp_pc' = [sp_pc EXCEPT ![c] = "wait_kw"]
    /\ UNCHANGED <<pool_thread, clients, made, got>>
    /\ UNCHANGED nonPoolVars

\* scorer.py:179 kw_result = kw_future.result()
JoinKw(c) ==
    /\ sp_pc[c] = "wait_kw"
    /\ unit_st[c].kw = "done"
    /\ sp_pc' = [sp_pc EXCEPT ![c] = "wait_llm"]
    /\ UNCHANGED <<pool_queue, pool_thread, unit_st, clients, made, got>>
    /\ UNCHANGED nonPoolVars

\* scorer.py:180 llm_result = llm_future.result(), then the record is built
\* and returned (182-217).
JoinLlm(c) ==
    /\ sp_pc[c] = "wait_llm"
    /\ unit_st[c].llm = "done"
    /\ sp_pc' = [sp_pc EXCEPT ![c] = "returned"]
    /\ UNCHANGED <<pool_queue, pool_thread, unit_st, clients, made, got>>
    /\ UNCHANGED nonPoolVars

\* A free pool thread takes the oldest queued unit.  llm_score starts with
\* the OpenAI branch (scorer.py:117-118).
ThreadTake(t) ==
    /\ pool_thread[t].pc = "idle"
    /\ pool_queue # <<>>
    /\ LET c == Head(pool_queue)[1]
           u == Head(pool_queue)[2]
       IN /\ pool_thread' = [pool_thread EXCEPT ![t] =
                 IF u = "kw"
                 THEN [c |-> c, unit |-> "kw", pc |-> "keyword", prov |-> "none"]
                 ELSE [c |-> c, unit |-> "llm", pc |-> "check", prov |-> "openai"]]
          /\ unit_st' = [unit_st EXCEPT ![c][u] = "running"]
    /\ pool_queue' = Tail(pool_queue)
    /\ UNCHANGED <<sp_pc, clients, made, got>>
    /\ UNCHANGED nonPoolVars

\* KeywordRun whose pool thread is not handed back once the unit is done.
KeywordRunKeepsThread(t) ==
    /\ pool_thread[t].pc = "keyword"
    /\ unit_st' = [unit_st EXCEPT ![pool_thread[t].c].kw = "done"]
    /\ pool_thread' = [pool_thread EXCEPT ![t].pc = "held"]
    /\ UNCHANGED <<sp_pc, pool_queue, clients, made, got>>
    /\ UNCHANGED nonPoolVars

\* scorer.py:49-63 keyword_score runs to its return.
KeywordRun(t) ==
    /\ pool_thread[t].pc = "keyword"
    /\ unit_st' = [unit_st EXCEPT ![pool_thread[t].c].kw = "done"]
    /\ pool_thread' = [pool_thread EXCEPT ![t] = IdleThread]
    /\ UNCHANGED <<sp_pc, pool_queue, clients, made, got>>
    /\ UNCHANGED nonPoolVars

\* scorer.py:95 / 102  if api_key not in _openai_clients:
ClientCheck(t) ==
    /\ pool_thread[t].pc = "check"
    /\ LET p == pool_thread[t].prov
       IN pool_thread' = [pool_thread EXCEPT ![t].pc =
              IF PoolKey(p) \in DOMAIN clients[p] THEN "get" ELSE "create"]
    /\ UNCHANGED <<sp_pc, pool_queue, unit_st, clients, made, got>>
    /\ UNCHANGED nonPoolVars

\* scorer.py:96-97 / 103-104  _openai_clients[api_key] = openai.OpenAI(...)
\* A client is named by its construction ordinal.
ClientCreate(t) ==
    /\ pool_thread[t].pc = "create"
    /\ LET p == pool_thread[t].prov
       IN /\ made' = [made EXCEPT ![p] = @ + 1]
          /\ clients' = [clients EXCEPT ![p] = Put(@, PoolKey(p), made[p] + 1)]
    /\ pool_thread' = [pool_thread EXCEPT ![t].pc = "get"]
    /\ UNCHANGED <<sp_pc, pool_queue, unit_st, got>>
    /\ UNCHANGED nonPoolVars

\* scorer.py:98 / 105  return _openai_clients[api_key]
ClientGet(t) ==
    /\ pool_thread[t].pc = "get"
    /\ LET p == pool_thread[t].prov
       IN got' = [got EXCEPT ![pool_thread[t].c][p] = clients[p][PoolKey(p)]]
    /\ pool_thread' = [pool_thread EXCEPT ![t].pc = "call"]
    /\ UNCHANGED <<sp_pc, pool_queue, unit_st, clients, made>>
    /\ UNCHANGED nonPoolVars

\* scorer.py:119-144 / 149-169: the provider's attempts, taken as one step
\* that either returns a result or gives the provider up.  After OpenAI gives
\* up llm_score goes on to Gemini (147-148); after a result, or after Gemini
\* gives up, llm_score returns (134, 159, 171).
ProviderCall(t) ==
    /\ pool_thread[t].pc = "call"
    /\ \E ok \in BOOLEAN :
          IF ~ok /\ pool_thread[t].prov = "openai"
          THEN /\ pool_thread' = [pool_thread EXCEPT ![t].pc = "check",
                                                     ![t].prov = "gemini"]
               /\ UNCHANGED unit_st
          ELSE /\ pool_thread' = [pool_thread EXCEPT ![t] = IdleThread]
               /\ unit_st' = [unit_st EXCEPT ![pool_thread[t].c].llm = "done"]
    /\ UNCHANGED <<sp_pc, pool_queue, clients, made, got>>
    /\ UNCHANGED nonPoolVars

NextPool ==
    \/ \E c \in Callers : SubmitKw(c)
    \/ \E c \in Callers : SubmitLlm(c)
    \/ \E c \in Callers : JoinKw(c)
    \/ \E c \in Callers : JoinLlm(c)
    \/ \E t \in PoolThreads : ThreadTake(t)
    \/ \E t \in PoolThreads : KeywordRun(t)
    \/ \E t \in PoolThreads : ClientCheck(t)
    \/ \E t \in PoolThreads : ClientCreate(t)
    \/ \E t \in PoolThreads : ClientGet(t)
    \/ \E t \in PoolThreads : ProviderCall(t)

SpecPool == InitPool /\ [][NextPool]_vars

\* ---------------------------------------------------------------- keyword_score
\* One keyword_score call, taken from the two keyword sets _extract_keywords
\* found (scorer.py:50-51) and the similarity _tfidf_similarity returned (56).

\* Keywords _extract_keywords can find, in the order Python's sorted() gives
\* these strings.
KeywordList ==
    << "agile", "angular", "aws", "azure", "c#", "c++", "django", "docker",
       "express", "fastapi", "flask", "gcp", "go", "java" >>

\* Position of keyword k in sorted order.
Rank(k) == CHOOSE i \in 1..Len(KeywordList) : KeywordList[i] = k

RECURSIVE SortedList(_)
\* sorted(list(s))
SortedList(s) ==
    IF s = {} THEN <<>>
    ELSE LET first == CHOOSE k \in s : \A other \in s : Rank(k) <= Rank(other)
         IN  <<first>> \o SortedList(s \ {first})

\* seq[:n]
Prefix(seq, n) == SubSeq(seq, 1, Min(n, Len(seq)))

\* m / n for integers, n > 0
FDivNat(m, n) ==
    LET q == LDivSmall(ShiftL(LFromNat(m), 64), n)
    IN  FlRound(FALSE, LNorm(q[1]), -64, q[2] # 0)

\* 1.0000000000000002, the double next above 1.0, which cosine_similarity
\* can return for two texts with the same terms.
OnePlusUlp == [neg |-> FALSE, mant |-> LAdd(ShiftL(<<1>>, 52), <<1>>), exp |-> -52]

\* Values of _tfidf_similarity (scorer.py:40-46).
TfidfValues == {FromTenths(0), FromTenths(5), FromTenths(10), OnePlusUlp}

\* scorer.py:62: sorted(list(missing))[:10]
MissingShown == 10

\* keyword_score without the [:10] of scorer.py:62.
keyword_scoreUntruncated(jd_kws, resume_kws, tfidf) ==
    LET matched == jd_kws \cap resume_kws
        missing == jd_kws \ resume_kws
        match_ratio == IF jd_kws # {} THEN FDivNat(Cardinality(matched), Cardinality(jd_kws))
                       ELSE FZero
        combined == FAdd(FMul(match_ratio, FromTenths(6)), FMul(tfidf, FromTenths(4)))
    IN  [score |-> FRound1(FMul(combined, FromTenths(1000))),
         matched_keywords |-> SortedList(matched),
         missing_keywords |-> SortedList(missing)]

\* scorer.py:49-63
keyword_score(jd_kws, resume_kws, tfidf) ==
    LET matched == jd_kws \cap resume_kws
        missing == jd_kws \ resume_kws
        match_ratio == IF jd_kws # {} THEN FDivNat(Cardinality(matched), Cardinality(jd_kws))
                       ELSE FZero
        combined == FAdd(FMul(match_ratio, FromTenths(6)), FMul(tfidf, FromTenths(4)))
    IN  [score |-> FRound1(FMul(combined, FromTenths(1000))),
         matched_keywords |-> SortedList(matched),
         missing_keywords |-> Prefix(SortedList(missing), MissingShown)]

\* The keyword sets tried: runs of consecutive keywords among the first
\* MaxKeywords, the empty set included.
KeywordRuns ==
    {{KeywordList[i] : i \in a..b} : a \in 1..MaxKeywords, b \in 0..MaxKeywords}

InitKw ==
    /\ InitBatchIdle
    /\ InitLLMIdle
    /\ InitJDIdle
    /\ InitPoolIdle
    /\ InitTwoIdle
    /\ kw_pc = "called"
    /\ jd_keywords \in KeywordRuns
    /\ resume_keywords \in KeywordRuns
    /\ tfidf_sim \in TfidfValues
    /\ kw_value = None

KeywordScoreReturn ==
    /\ kw_pc = "called"
    /\ kw_value' = keyword_score(jd_keywords, resume_keywords, tfidf_sim)
    /\ kw_pc' = "returned"
    /\ UNCHANGED <<jd_keywords, resume_keywords, tfidf_sim>>
    /\ UNCHANGED nonKwVars

NextKw == KeywordScoreReturn

SpecKw == InitKw /\ [][NextKw]_vars

\* ---------------------------------------------------------------- two requests
\* Two /api/analyze requests served at the same time.  Each has its own
\* candidates, total and event_stream locals (closure variables of its own
\* call of analyze_candidates); the executor of main.py:29 and its
\* BATCH_SIZE threads are the one thing of main.py they share.  A worker
\* here is one step to start and one to return: its record is what
\* _process_one_candidate builds from the arguments it was called with.
Requests == {"A", "B"}

\* Rows of request r.  Requests name their rows alike (main.py:225) and
\* differ in the links.
RequestRow(r, i) ==
    << "Candidate " \o ToString(i),
       "http://host/" \o r \o "/cv" \o ToString(i),
       IF i = 1 THEN "photo-" \o r ELSE "" >>

\* What scoring returns in a worker whose resume was read.
SampleScoreData ==
    ScoreSingleJD(score_resume(Tagged(FullPayload, "GPT"),
                               [score |-> 620, matched_keywords |-> <<"python">>,
                                missing_keywords |-> <<"aws", "sql">>]))

IdleRun == [st |-> "idle", ret |-> None]

InitTwo ==
    /\ InitBatchIdle
    /\ InitLLMIdle
    /\ InitJDIdle
    /\ InitPoolIdle
    /\ InitKwIdle
    /\ \E n \in [Requests -> 0..MaxRows] :
          /\ rq = [r \in Requests |->
                     [candidates |-> [i \in 1..n[r] |-> RequestRow(r, i)],
                      total |-> n[r], es_pc |-> "loop", batch_start |-> 0,
                      batch |-> <<>>, idx |-> 0, completed |-> 0, results |-> <<>>,
                      batch_results |-> <<>>, events |-> <<>>]]
          /\ xw = [r \in Requests |-> [i \in 1..n[r] |-> IdleRun]]

\* Calls of any request that hold a thread of the executor.
RunningCalls == {c \in Requests \X (1..MaxRows) :
                    c[2] \in DOMAIN xw[c[1]] /\ xw[c[1]][c[2]].st = "running"}

\* WorkerArgs taking the row from request "A" whenever it has one.
WorkerArgsShared(r, i) ==
    IF i <= rq["A"].total THEN rq["A"].candidates[i] ELSE rq[r].candidates[i]

\* main.py:254: the name and url run_in_executor passes to the call for
\* candidate i of request r.
WorkerArgs(r, i) == rq[r].candidates[i]

\* main.py:236-237
RqBatchLoop(r) ==
    /\ rq[r].es_pc = "loop"
    /\ rq' = [rq EXCEPT ![r] =
          IF @.batch_start < @.total
          THEN [@ EXCEPT !.batch = BatchSlice(rq[r].candidates, rq[r].batch_start),
                         !.idx = 1, !.es_pc = "progress"]
          ELSE [@ EXCEPT !.es_pc = "done"]]
    /\ UNCHANGED xw
    /\ UNCHANGED nonTwoVars

\* main.py:239-248
RqEmitProgress(r) ==
    /\ rq[r].es_pc = "progress"
    /\ rq[r].idx <= Len(rq[r].batch)
    /\ rq' = [rq EXCEPT ![r] =
          [@ EXCEPT !.completed = @ + 1,
                    !.events = Append(@, ProgressEvent(rq[r].completed + 1, rq[r].total,
                                                       rq[r].batch[rq[r].idx][1])),
                    !.idx = @ + 1,
                    !.es_pc = IF LoopEnds(rq[r].idx, rq[r].batch) THEN "dispatch"
                              ELSE "progress"]]
    /\ UNCHANGED xw
    /\ UNCHANGED nonTwoVars

\* main.py:250-257
RqDispatch(r) ==
    /\ rq[r].es_pc = "dispatch"
    /\ xw' = [xw EXCEPT ![r] =
          [i \in DOMAIN @ |->
              IF i \in {CandOf(rq[r].batch_start, j) : j \in 1..Len(rq[r].batch)}
              THEN [st |-> "queued", ret |-> None]
              ELSE @[i]]]
    /\ rq' = [rq EXCEPT ![r].es_pc = "gather"]
    /\ UNCHANGED nonTwoVars

\* A thread of the executor takes a queued call of either request
\* (main.py:29: max_workers=BATCH_SIZE for the whole process).
RunStart(r, i) ==
    /\ xw[r][i].st = "queued"
    /\ Cardinality(RunningCalls) < BATCH_SIZE
    /\ xw' = [xw EXCEPT ![r][i].st = "running"]
    /\ UNCHANGED rq
    /\ UNCHANGED nonTwoVars

\* main.py:124-158: the call returns the record for the row it was given;
\* the download fails or the resume is scored.
RunReturn(r, i) ==
    /\ xw[r][i].st = "running"
    /\ \E file_path \in {NoPath, "/tmp/ats_downloads/resume.pdf"} :
          xw' = [xw EXCEPT ![r][i] =
                    [st |-> "done",
                     ret |-> _process_one_candidate(WorkerArgs(r, i)[1], WorkerArgs(r, i)[2],
                                                    file_path, "resume text",
                                                    SampleScoreData)]]
    /\ UNCHANGED rq
    /\ UNCHANGED nonTwoVars

\* main.py:259: the values of this request's futures, in the order passed.
RqGather(r) ==
    /\ rq[r].es_pc = "gather"
    /\ \A j \in 1..Len(rq[r].batch) : xw[r][CandOf(rq[r].batch_start, j)].st = "done"
    /\ rq' = [rq EXCEPT ![r] =
          [@ EXCEPT !.batch_results =
                        [j \in 1..Len(rq[r].batch) |->
                            xw[r][CandOf(rq[r].batch_start, j)].ret],
                    !.idx = 1, !.es_pc = "results"]]
    /\ UNCHANGED xw
    /\ UNCHANGED nonTwoVars

\* main.py:261-280
RqEmitResult(r) ==
    /\ rq[r].es_pc = "results"
    /\ rq[r].idx <= Len(rq[r].batch_results)
    /\ LET raw == rq[r].batch_results[rq[r].idx]
           ok == Get(raw, "_ok", FALSE)
           result == InjectPhoto(Pop(raw, "_ok"), PhotoFromSheet(rq[r].batch[rq[r].idx]))
       IN  rq' = [rq EXCEPT ![r] =
              [@ EXCEPT !.results = AppendResult(@, result),
                        !.events = Append(@, ResultEvent(result, ok, Len(rq[r].results) + 1,
                                                         rq[r].total)),
                        !.idx = @ + 1,
                        !.es_pc = IF LoopEnds(rq[r].idx, rq[r].batch_results) THEN "sleep"
                                  ELSE "results"]]
    /\ UNCHANGED xw
    /\ UNCHANGED nonTwoVars

\* main.py:282 and the step of the for loop.
RqBatchSleep(r) ==
    /\ rq[r].es_pc = "sleep"
    /\ rq' = [rq EXCEPT ![r] = [@ EXCEPT !.batch_start = NextBatchStart(@),
                                         !.es_pc = "loop"]]
    /\ UNCHANGED xw
    /\ UNCHANGED nonTwoVars

\* main.py:284-285
RqEmitDone(r) ==
    /\ rq[r].es_pc = "done"
    /\ rq' = [rq EXCEPT ![r] =
          [@ EXCEPT !.events = Append(@, DoneEvent(rq[r].total, rq[r].results)),
                    !.es_pc = "closed"]]
    /\ UNCHANGED xw
    /\ UNCHANGED nonTwoVars

NextTwo ==
    \/ \E r \in Requests : RqBatchLoop(r)
    \/ \E r \in Requests : RqEmitProgress(r)
    \/ \E r \in Requests : RqDispatch(r)
    \/ \E r \in Requests : \E i \in DOMAIN xw[r] : RunStart(r, i)
    \/ \E r \in Requests : \E i \in DOMAIN xw[r] : RunReturn(r, i)
    \/ \E r \in Requests : RqGather(r)
    \/ \E r \in Requests : RqEmitResult(r)
    \/ \E r \in Requests : RqBatchSleep(r)
    \/ \E r \in Requests : RqEmitDone(r)

SpecTwo == InitTwo /\ [][NextTwo]_vars

\* ================================================================ claims
NameOf(i) == candidates[i][1]
ResultPosOf(i) ==
    {p \in 1..Len(events) : events[p]["type"] = "result" /\ events[p]["candidate"] = NameOf(i)}
ProgressPosOf(i) ==
    {p \in 1..Len(events) : events[p]["type"] = "progress" /\ events[p]["candidate"] = NameOf(i)}
HasResult(i) ==
    \E p \in 1..Len(events) :
        events[p]["type"] = "result" /\ events[p]["candidate"] = NameOf(i)
HasProgress(i) ==
    \E p \in 1..Len(events) :
        events[p]["type"] = "progress" /\ events[p]["candidate"] = NameOf(i)
\* The candidates of the dispatch round candidate i belongs to.
RoundMates(i) ==
    LET first == ((i - 1) \div BATCH_SIZE) * BATCH_SIZE + 1
    IN  first..Min(first + BATCH_SIZE - 1, total)
DonePositions == {p \in 1..Len(events) : events[p]["type"] = "done"}
ResultEvents == SelectSeq(events, LAMBDA e : e["type"] = "result")
ProgressEvents == SelectSeq(events, LAMBDA e : e["type"] = "progress")
\* The dispatch round candidate i belongs to, counted from 0.
RoundOf(i) == (i - 1) \div BATCH_SIZE

\* llm_score has returned.
LlmReturned == llm_pc \in {"returned", "scored"}
OpenAICalls == SelectSeq(calls, LAMBDA c : c.provider = "openai")
GeminiCalls == SelectSeq(calls, LAMBDA c : c.provider = "gemini")
AllOpenAIRetryable ==
    \A p \in 1..Len(OpenAICalls) :
        OpenAICalls[p].out.kind # "ok" /\ OpenAIRetryable(OpenAICalls[p].out.err)
AllGeminiRetryable ==
    \A p \in 1..Len(GeminiCalls) :
        GeminiCalls[p].out.kind # "ok" /\ GeminiRetryable(GeminiCalls[p].out.err)

\* C1 (failure isolation): the stream never stops short of its done event;
\* the done event carries exactly `total` records, one per candidate; the
\* record of a candidate whose download, extraction or scoring failed has
\* Status "Failed" and ATS Score 0, and every other record has another Status.
C1_FailureIsolation ==
    /\ es_pc # "closed" => ENABLED Next
    /\ es_pc = "closed" =>
         LET done == events[Len(events)]
         IN  /\ done["type"] = "done"
             /\ Len(done["results"]) = total
             /\ \A i \in 1..total :
                  LET recs == {p \in 1..Len(done["results"]) :
                                 done["results"][p]["Candidate Name"] = NameOf(i)}
                  IN  /\ Cardinality(recs) = 1
                      /\ \A p \in recs :
                           IF worker[i].fate # "none"
                           THEN /\ done["results"][p]["Status"] = "Failed"
                                /\ done["results"][p]["ATS Score"] = 0
                           ELSE done["results"][p]["Status"] # "Failed"

\* C1 witness: five candidates, the third's download failed, the fifth's
\* extraction yielded nothing, the first's scoring raised, and the stream ended.
C1_Witness ==
    /\ es_pc = "closed" /\ total = 5
    /\ worker[3].fate = "download" /\ worker[5].fate = "extract"
    /\ worker[1].fate = "score"
    /\ worker[2].fate = "none" /\ worker[4].fate = "none"

\* C2 (failover count): with both keys configured and every primary attempt
\* ending in an error the primary's block classifies retryable, the primary
\* is called exactly 3 times, all before the fallback's first call; if every
\* fallback attempt fails retryably too, the fallback is called exactly 3
\* times and llm_score returns None.
C2_FailoverCount ==
    (LlmReturned /\ openai_key # "" /\ gemini_key # "" /\ AllOpenAIRetryable) =>
        /\ Len(OpenAICalls) = 3
        /\ Len(GeminiCalls) >= 1
        /\ \A p \in 1..Len(calls) : calls[p].provider = (IF p <= 3 THEN "openai" ELSE "gemini")
        /\ AllGeminiRetryable => (Len(GeminiCalls) = 3 /\ llm_ret = None)

\* C2 witness: six retryable failures, three per provider, and None returned.
C2_Witness ==
    /\ llm_pc = "returned" /\ openai_key # "" /\ gemini_key # ""
    /\ AllOpenAIRetryable /\ AllGeminiRetryable
    /\ Len(calls) = 6 /\ llm_ret = None

\* C3 as claimed (result notifications follow the completion order of the
\* round's workers): of two workers of the last dispatched round, the one that
\* returned first has its result notification first.
C3_CompletionOrder ==
    \A p, q \in 1..Len(finishOrder) :
        p < q =>
            \A a \in ResultPosOf(finishOrder[p]), b \in ResultPosOf(finishOrder[q]) : a < b

\* C3 amended: a candidate's result notification is emitted only once every
\* worker of its round has returned, and result notifications follow the
\* input order of the candidates whatever the order of completion.
C3_ResultsAfterRoundInInputOrder ==
    /\ \A i \in 1..total :
         HasResult(i) => \A j \in RoundMates(i) : worker[j].st = "done"
    /\ \A p \in 1..Len(ResultEvents) : ResultEvents[p]["candidate"] = NameOf(p)

\* C3 witness: the second worker returned before the first and both result
\* notifications are out.
C3_Witness ==
    /\ finishOrder = <<2, 1>>
    /\ ResultPosOf(1) # {} /\ ResultPosOf(2) # {}

\* C4: the results list of the done event holds one record per candidate, at
\* the candidate's input position, and it is the record that candidate's
\* worker returned (less _ok, with the sheet's photo).
C4_DoneInInputOrder ==
    es_pc = "closed" =>
        LET res == events[Len(events)]["results"]
        IN  /\ Len(res) = total
            /\ \A i \in 1..total :
                 /\ res[i]["Candidate Name"] = NameOf(i)
                 /\ res[i]["Resume Link"] = candidates[i][2]
                 /\ res[i] = InjectPhoto(Pop(worker[i].ret, "_ok"), candidates[i][3])

\* C4 witness: the stream ended after a last round whose second worker
\* returned before its first.
C4_Witness == es_pc = "closed" /\ total = 4 /\ finishOrder = <<4, 3>>

\* C5: at most one done event exists; it is the last event, follows all
\* `total` result notifications, carries total, and its results list is the
\* records of the result notifications in the order they were emitted.
C5_DoneOnceLast ==
    /\ Cardinality(DonePositions) <= 1
    /\ es_pc = "closed" => Cardinality(DonePositions) = 1
    /\ \A p \in DonePositions :
         /\ p = Len(events)
         /\ es_pc = "closed"
         /\ Len(ResultEvents) = total
         /\ events[p]["total"] = total
         /\ events[p]["results"] = [k \in 1..Len(ResultEvents) |-> ResultEvents[k]["data"]]

\* C5 witness: the done event after five result notifications.
C5_Witness == DonePositions # {} /\ total = 5 /\ Len(ResultEvents) = 5

\* C6: a candidate never has two processing notifications and has one when
\* the stream ends; processing notifications follow input order; and when a
\* worker has been handed to the pool, every candidate of its round already
\* has its processing notification.
C6_ProgressBeforeWork ==
    /\ \A i \in 1..total : Cardinality(ProgressPosOf(i)) <= 1
    /\ es_pc = "closed" => \A i \in 1..total : Cardinality(ProgressPosOf(i)) = 1
    /\ \A p \in 1..Len(ProgressEvents) : ProgressEvents[p]["candidate"] = NameOf(p)
    /\ \A i \in 1..total :
         worker[i].st # "idle" => \A j \in RoundMates(i) : HasProgress(j)

\* C6 witness: in the second round one worker runs while the other is queued.
C6_Witness == total = 5 /\ worker[3].st = "running" /\ worker[4].st = "queued"

\* C7: there are ceil(total / BATCH_SIZE) dispatch rounds, round k holding the
\* candidates (k-1)*BATCH_SIZE+1 .. in input order, each of BATCH_SIZE
\* candidates but the last, which holds the rest; no candidate means no round
\* and a done event with an empty list as the only event.
C7_Partition ==
    LET n == (total + BATCH_SIZE - 1) \div BATCH_SIZE
    IN  /\ Len(rounds) <= n
        /\ es_pc = "closed" => Len(rounds) = n
        /\ \A k \in 1..Len(rounds) :
             /\ Len(rounds[k]) = (IF k < n THEN BATCH_SIZE ELSE total - BATCH_SIZE * (n - 1))
             /\ \A j \in 1..Len(rounds[k]) : rounds[k][j] = NameOf((k - 1) * BATCH_SIZE + j)
        /\ (es_pc = "closed" /\ total = 0) =>
             /\ rounds = <<>>
             /\ Len(events) = 1
             /\ events[1]["type"] = "done"
             /\ events[1]["results"] = <<>>

\* C7 witness: five candidates went out in three rounds with a shorter last one.
C7_Witness ==
    /\ es_pc = "closed" /\ total = 5 /\ Len(rounds) = 3
    /\ Len(rounds[1]) = BATCH_SIZE /\ Len(rounds[2]) = BATCH_SIZE /\ Len(rounds[3]) = 1

\* C8: when a worker of a later round has been handed to the pool, every
\* worker of every earlier round has returned; and never more than BATCH_SIZE
\* workers of the request are queued or running.
C8_NoOverlap ==
    /\ \A j \in 1..total :
         worker[j].st # "idle" =>
            \A i \in 1..total : RoundOf(i) < RoundOf(j) => worker[i].st = "done"
    /\ Cardinality(InFlight) <= BATCH_SIZE

\* C8 witness: both workers of the second round run at the same time.
C8_Witness == total = 5 /\ worker[3].st = "running" /\ worker[4].st = "running"

\* The lifecycle stage of candidate i as the stream shows it.
Stage(i) ==
    IF HasResult(i)
    THEN IF \E p \in 1..Len(events) :
               /\ events[p]["type"] = "result"
               /\ events[p]["candidate"] = NameOf(i)
               /\ events[p]["status"] = "complete"
         THEN "Complete" ELSE "Failed"
    ELSE IF HasProgress(i) THEN "Processing" ELSE "Queued"

StageSteps ==
    { <<"Queued", "Queued">>, <<"Queued", "Processing">>,
      <<"Processing", "Processing">>, <<"Processing", "Complete">>,
      <<"Processing", "Failed">>,
      <<"Complete", "Complete">>, <<"Failed", "Failed">> }

\* C9: in every step each candidate keeps its stage or moves Queued ->
\* Processing -> Complete or Failed; Failed is the stage of exactly the
\* candidates whose pipeline failed; a worker runs at most once and is never
\* handed to the pool again after it returned; a candidate never has two
\* result notifications and an emitted one is never altered; when the stream
\* ends every candidate has run once and has one result notification.
C9_Lifecycle ==
    [][ \A i \in 1..total :
          /\ <<Stage(i), Stage(i)'>> \in StageSteps
          /\ Stage(i)' = "Failed" => worker'[i].fate # "none"
          /\ Stage(i)' = "Complete" => worker'[i].fate = "none"
          /\ worker'[i].runs <= 1
          /\ worker[i].st = "done" => worker'[i] = worker[i]
          /\ Cardinality(ResultPosOf(i)') <= 1
          /\ \A p \in 1..Len(events) : events'[p] = events[p]
          /\ es_pc' = "closed" =>
               /\ worker'[i].runs = 1
               /\ Cardinality(ResultPosOf(i)') = 1
               /\ Stage(i)' \in {"Complete", "Failed"}
      ]_vars

\* C9 witness: the stream ended with a Failed and a Complete candidate, each
\* run once.
C9_Witness ==
    /\ es_pc = "closed" /\ total >= 2
    /\ Stage(1) = "Failed" /\ Stage(2) = "Complete"
    /\ worker[1].runs = 1 /\ worker[2].runs = 1

\* C10 (provider order): a configured primary is the first provider called
\* and an unconfigured one is never called; the fallback is called only with
\* its key configured, after every primary call (if the primary is configured
\* there is one) has failed, and the primary is not called again; nothing is
\* called after a successful call; a configured fallback is tried whenever the
\* primary did not succeed; and llm_score returns the successful call's object
\* tagged "GPT" for the primary and "Gemini" for the fallback, or None when no
\* call succeeded.
C10_ProviderOrder ==
    /\ (openai_key # "" /\ calls # <<>>) => calls[1].provider = "openai"
    /\ (openai_key # "" /\ LlmReturned) => calls # <<>>
    /\ openai_key = "" => Len(OpenAICalls) = 0
    /\ \A p \in 1..Len(calls) :
         calls[p].provider = "gemini" =>
            /\ gemini_key # ""
            /\ \A q \in 1..(p - 1) : calls[q].out.kind # "ok"
            /\ openai_key # "" => \E q \in 1..(p - 1) : calls[q].provider = "openai"
            /\ \A q \in p..Len(calls) : calls[q].provider = "gemini"
    /\ \A p \in 1..Len(calls) :
         calls[p].out.kind = "ok" => (p = Len(calls) /\ LlmReturned)
    /\ (LlmReturned /\ gemini_key # ""
          /\ \A p \in 1..Len(OpenAICalls) : OpenAICalls[p].out.kind # "ok")
         => Len(GeminiCalls) >= 1
    /\ LlmReturned =>
         IF calls # <<>> /\ calls[Len(calls)].out.kind = "ok"
         THEN llm_ret = Put(calls[Len(calls)].out.payload, "llm_provider",
                            IF calls[Len(calls)].provider = "openai" THEN "GPT" ELSE "Gemini")
         ELSE llm_ret = None

\* C10 witness: the primary failed, the fallback answered, and the object
\* returned is tagged "Gemini".
C10_Witness ==
    /\ llm_pc = "returned" /\ openai_key # "" /\ gemini_key # ""
    /\ Len(OpenAICalls) >= 1 /\ Len(GeminiCalls) >= 1
    /\ llm_ret # None /\ llm_ret["llm_provider"] = "Gemini"

\* The error messages that tell of rate-limiting, a timeout, an exhausted
\* quota or an overloaded server.
TransientMessages ==
    {"rate limit exceeded", "error code: 429", "request timeout", "request timed out.",
     "server overloaded", "quota exceeded", "resource exhausted"}

\* Call number p of llm_score is followed by another attempt on the same provider.
RetriedAfter(p) ==
    IF p < Len(calls)
    THEN calls[p + 1].provider = calls[p].provider /\ calls[p + 1].attempt = calls[p].attempt + 1
    ELSE llm_pc = calls[p].provider /\ attempt = calls[p].attempt + 1

\* C11 as claimed (retryable classification, the same for both providers): a
\* call of either provider that raised an error telling of rate-limiting, a
\* timeout, a quota or an overload before the provider's last attempt is
\* followed by another attempt on the same provider.
C11_RetryableClassification ==
    \A p \in 1..Len(calls) :
        (/\ calls[p].out.kind = "error"
         /\ calls[p].out.err \in TransientMessages
         /\ calls[p].attempt < _MAX_RETRIES)
        => RetriedAfter(p)

\* C12 as claimed (non-retryable failure): after a call whose response is no
\* JSON, or whose error tells of none of the transient conditions, the same
\* provider is not called again; a failed primary call of that kind is
\* followed by the fallback when its key is configured; and llm_score returns
\* None or an object, never an exception.
C12_NonRetryableAbandons ==
    /\ \A p \in 1..Len(calls) :
         (\/ calls[p].out.kind = "unparsable"
          \/ calls[p].out.kind = "error" /\ calls[p].out.err \notin TransientMessages)
         => /\ ~RetriedAfter(p)
            /\ \A q \in (p + 1)..Len(calls) : calls[q].provider # calls[p].provider
            /\ (calls[p].provider = "openai" /\ gemini_key # "")
                 => (IF p < Len(calls) THEN calls[p + 1].provider = "gemini"
                     ELSE llm_pc = "gemini")
    /\ ~IsRaised(llm_ret)

\* C13 (keyword fallback): when llm_score returned None, score_resume returns
\* a record (it does not raise) whose ATS Score is the keyword score, whose
\* Status is "Keyword", whose Recommendation is "Maybe" and whose Missing
\* Requirements are the keyword matcher's missing keywords joined; llm_score
\* returns None when neither key is configured and when no call succeeded;
\* and with neither key configured no provider is ever called.
C13_KeywordFallback ==
    /\ (openai_key = "" /\ gemini_key = "") => calls = <<>>
    /\ LlmReturned =>
         (llm_ret = None <=> \A p \in 1..Len(calls) : calls[p].out.kind # "ok")
    /\ (llm_pc = "scored" /\ llm_ret = None) =>
         /\ ~IsRaised(score_ret)
         /\ score_ret["ATS Score"] = kw_ret["score"]
         /\ score_ret["Status"] = "Keyword"
         /\ score_ret["Recommendation"] = "Maybe"
         /\ score_ret["Missing Requirements"] = Join(kw_ret["missing_keywords"])

\* C13 witness: both providers were tried and abandoned, and the record
\* carries the keyword score 62.0 and the two missing keywords.
C13_Witness ==
    /\ llm_pc = "scored" /\ llm_ret = None
    /\ Len(OpenAICalls) >= 1 /\ Len(GeminiCalls) >= 1
    /\ score_ret["ATS Score"] = 620
    /\ score_ret["Missing Requirements"] = "aws, sql"

\* The first position among the n per-JD records holding the highest ATS Score.
FirstBest(recs, n) ==
    CHOOSE m \in 1..n :
        /\ \A p \in 1..n : recs[p]["ATS Score"] <= recs[m]["ATS Score"]
        /\ \A p \in 1..(m - 1) : recs[p]["ATS Score"] < recs[m]["ATS Score"]

\* C14 as claimed (multi-JD selection): with two or more job descriptions,
\* every one is scored, and the record returned is the first of the n per-JD
\* records holding the highest ATS Score, with Matched JD set to its Target Job
\* Role; in particular scores 40, 85, 60 return the 85 record.
C14_BestOfAllJDs ==
    (jd_pc = "returned" /\ jd_n >= 2 /\ ~IsRaised(jd_ret)) =>
        /\ Len(jd_calls) >= jd_n
        /\ jd_ret = Put(jd_calls[FirstBest(jd_calls, jd_n)], "Matched JD",
                         jd_calls[FirstBest(jd_calls, jd_n)]["Target Job Role"])

\* The role of a record is unknown: no provider answered, or the answer had
\* no target role.
RoleUnknown(rec) == rec["Status"] = "Keyword" \/ rec["Target Job Role"] = ""

\* C15 as claimed (single-JD label): with one job description, Matched JD is
\* the record's Target Job Role, and is "Single JD" when the role is unknown.
C15_SingleJDLabel ==
    (jd_pc = "returned" /\ jd_n = 1 /\ ~IsRaised(jd_ret)) =>
        jd_ret["Matched JD"] = (IF RoleUnknown(jd_calls[1]) THEN "Single JD"
                                ELSE jd_calls[1]["Target Job Role"])

\* C16 (blend rule): when llm_score returned an object with overall score L,
\* ATS Score is round(0.7*L + 0.3*K, 1) computed in doubles, which is the
\* tenth nearest to 0.7*L + 0.3*K whenever that sum is not half-way between
\* two tenths; when llm_score returned None, ATS Score is K itself.
C16_BlendRule ==
    llm_pc = "scored" =>
        IF llm_ret = None THEN score_ret["ATS Score"] = kw_ret["score"]
        ELSE LET L == llm_ret["overall_score"][2]
                 K == kw_ret["score"]
             IN  /\ score_ret["ATS Score"]
                      = FRound1(FAdd(FMul(FromTenths(7), FromTenths(L)),
                                     FMul(FromTenths(3), FromTenths(K))))
                 /\ (7 * L + 3 * K) % 10 # 5 =>
                      score_ret["ATS Score"] = (7 * L + 3 * K + 5) \div 10

\* C16 witness: L = 0.0 and K = 0.5 blend to 0.1 (0.3 * 0.5 is a double just
\* below 0.15).
C16_Witness ==
    /\ llm_pc = "scored" /\ llm_ret # None
    /\ llm_ret["overall_score"] = <<"num", 0>> /\ kw_ret["score"] = 5
    /\ score_ret["ATS Score"] = 1

\* C17 as claimed (score range): the ATS Score of every record a worker
\* returned (score_resume's record, or the Failed record) and of every result
\* notification lies between 0.0 and 100.0.
C17_ScoreRange ==
    /\ \A i \in 1..total :
         worker[i].st = "done" =>
            (worker[i].ret["ATS Score"] >= 0 /\ worker[i].ret["ATS Score"] <= 1000)
    /\ \A p \in 1..Len(events) :
         events[p]["type"] = "result" =>
            /\ events[p]["score"] >= 0 /\ events[p]["score"] <= 1000
            /\ events[p]["data"]["ATS Score"] >= 0
            /\ events[p]["data"]["ATS Score"] <= 1000

\* The word a recommendation spells, letter case aside; "Maybe" for any other
\* text and for an answer without recommendation.
SpelledWord(llm_result) ==
    LET r == Get(llm_result, "recommendation", "")
    IN  IF r \in {"yes", "Yes", "YES"} THEN "Yes"
        ELSE IF r \in {"no", "No", "NO"} THEN "No"
        ELSE "Maybe"

\* C18 (recommendation): the Recommendation of every record a worker returned
\* and of every record in a result notification or in the done event is
\* "Yes", "No" or "Maybe"; a Failed record has "No"; a keyword-only record has
\* "Maybe"; and a record built from an LLM answer has the word the answer
\* spells, "Maybe" when the answer has no recommendation or another text.
C18_Recommendation ==
    /\ \A i \in 1..total :
         worker[i].st = "done" =>
            /\ worker[i].ret["Recommendation"] \in {"Yes", "No", "Maybe"}
            /\ worker[i].fate # "none" => worker[i].ret["Recommendation"] = "No"
            /\ (worker[i].fate = "none" /\ worker[i].llm = None) =>
                  worker[i].ret["Recommendation"] = "Maybe"
            /\ (worker[i].fate = "none" /\ worker[i].llm # None) =>
                  worker[i].ret["Recommendation"] = SpelledWord(worker[i].llm)
    /\ \A p \in 1..Len(events) :
         /\ events[p]["type"] = "result" =>
              events[p]["data"]["Recommendation"] \in {"Yes", "No", "Maybe"}
         /\ events[p]["type"] = "done" =>
              \A q \in 1..Len(events[p]["results"]) :
                 events[p]["results"][q]["Recommendation"] \in {"Yes", "No", "Maybe"}

\* C18 witness: the stream ended; the first answer spelled "yes", the second
\* candidate had no LLM answer, the third's answer said "strong yes" and the
\* fourth's pipeline failed.
C18_Witness ==
    /\ es_pc = "closed" /\ total >= 4
    /\ worker[1].fate = "none" /\ worker[1].ret["Recommendation"] = "Yes"
    /\ worker[2].fate = "none" /\ worker[2].llm = None
    /\ worker[3].fate = "none" /\ Get(worker[3].llm, "recommendation", "") = "strong yes"
    /\ worker[3].ret["Recommendation"] = "Maybe"
    /\ worker[4].fate # "none" /\ worker[4].ret["Recommendation"] = "No"

\* ---------------------------------------------------------------- C19
\* C19: for each API key at most one client is ever constructed, and every
\* llm_score execution that looked the key up got that same client, however
\* the concurrent executions interleave.
C19_ClientCreatedOnce ==
    /\ \A p \in DOMAIN made : made[p] <= 1
    /\ \A p \in DOMAIN made : \A c1, c2 \in DOMAIN got :
          (got[c1][p] # 0 /\ got[c2][p] # 0) => got[c1][p] = got[c2][p]

\* ---------------------------------------------------------------- C20
UnitIs(c, u, st) == unit_st[c][u] = st
SomeThreadFree == \E t \in DOMAIN pool_thread : pool_thread[t].pc = "idle"

\* C20: in every score_resume invocation, also with several invocations
\* sharing the pool, (join) the call returns only after both of its units
\* finished, (no wait) its keyword unit is never still queued once its LLM
\* unit runs or has finished, and (concurrent) while its keyword unit runs
\* its LLM unit runs too or a pool thread is free to run it, so the LLM
\* unit never has to sit out the keyword unit.
C20_ForkJoin ==
    \A c \in DOMAIN sp_pc :
        /\ sp_pc[c] = "returned" => (UnitIs(c, "kw", "done") /\ UnitIs(c, "llm", "done"))
        /\ ~(UnitIs(c, "kw", "queued") /\ unit_st[c].llm \in {"running", "done"})
        /\ (UnitIs(c, "kw", "running") /\ UnitIs(c, "llm", "queued")) => SomeThreadFree

\* ---------------------------------------------------------------- C21
RecordsSent(e) ==
    IF e["type"] = "result" THEN {e["data"]}
    ELSE IF e["type"] = "done" THEN {e["results"][k] : k \in 1..Len(e["results"])}
    ELSE {}

\* C21: on both endpoints, no record carried by a result notification or by
\* the done notification has a "Candidate Name Extracted" field.
C21_ExtractedNameDropped ==
    \A p \in 1..Len(events) : \A rec \in RecordsSent(events[p]) :
        "Candidate Name Extracted" \notin DOMAIN rec

\* ---------------------------------------------------------------- C22
ResultsSent(r) == SelectSeq(rq[r].events, LAMBDA e : e["type"] = "result")
DonesSent(r) == SelectSeq(rq[r].events, LAMBDA e : e["type"] = "done")

\* C22: with two requests running at once on the one executor, the k-th
\* result notification of a request carries the record of that request's own
\* k-th candidate (its name, its link, its photo when one was supplied), at
\* most one per candidate, and the done payload is exactly these records,
\* one for each of the request's candidates.
C22_RequestIsolation ==
    \A r \in DOMAIN rq :
        /\ Len(ResultsSent(r)) <= rq[r].total
        /\ \A k \in 1..Len(ResultsSent(r)) :
              LET rec == ResultsSent(r)[k]["data"]
                  cand == rq[r].candidates[k]
              IN  /\ rec["Candidate Name"] = cand[1]
                  /\ rec["Resume Link"] = cand[2]
                  /\ cand[3] # "" => rec["Photo Link"] = cand[3]
        /\ \A d \in 1..Len(DonesSent(r)) :
              /\ Len(DonesSent(r)[d]["results"]) = rq[r].total
              /\ DonesSent(r)[d]["results"] =
                     [k \in 1..Len(ResultsSent(r)) |-> ResultsSent(r)[k]["data"]]

\* Both requests have two candidates and are through; the first candidate of
\* one failed and the first of the other was scored.
C22_Witness ==
    /\ DOMAIN rq = Requests
    /\ \A r \in Requests : rq[r].total = 2 /\ rq[r].es_pc = "closed"
    /\ rq["A"].results[1]["Status"] = "Failed"
    /\ rq["B"].results[1]["Status"] = "GPT"

\* ---------------------------------------------------------------- C23
SetOf(seq) == {seq[i] : i \in 1..Len(seq)}
Missing == jd_keywords \ resume_keywords

\* seq lists, in sorted order and without repeats, the first keywords of s:
\* all of them, or the MissingShown that sort lowest.
IsSortedPrefix(seq, s) ==
    /\ SetOf(seq) \subseteq s
    /\ Len(seq) = Min(MissingShown, Cardinality(s))
    /\ \A i, j \in 1..Len(seq) : i < j => Rank(seq[i]) < Rank(seq[j])
    /\ \A k \in s \ SetOf(seq) : \A i \in 1..Len(seq) : Rank(seq[i]) < Rank(k)

\* What holds of every keyword_score result apart from the coverage.
KeywordResultShape ==
    /\ kw_value.score >= 0 /\ kw_value.score <= 1000
    /\ Len(kw_value.missing_keywords) <= MissingShown
    /\ IsSortedPrefix(kw_value.missing_keywords, Missing)
    /\ SetOf(kw_value.matched_keywords) = jd_keywords \cap resume_keywords

\* C23 as stated: the score is in [0,100], missing_keywords has at most 10
\* entries and is the sorted prefix of jdKeywords minus resumeKeywords,
\* matched_keywords is the intersection, and whenever the resume's keywords
\* are a subset of the JD's, matched and missing together are exactly the
\* JD's keywords.
C23_KeywordSets ==
    kw_pc = "returned" =>
        /\ KeywordResultShape
        /\ resume_keywords \subseteq jd_keywords =>
              SetOf(kw_value.matched_keywords) \cup SetOf(kw_value.missing_keywords)
                  = jd_keywords

\* C23 amended: the first four parts as stated; matched and missing together
\* are exactly the JD's keywords when at most 10 of them are missing from
\* the resume (whether or not the resume has other keywords), and otherwise
\* they are the matched ones and the 10 missing ones that sort lowest.
C23_KeywordSetsUpToTen ==
    kw_pc = "returned" =>
        /\ KeywordResultShape
        /\ SetOf(kw_value.matched_keywords) \cup SetOf(kw_value.missing_keywords)
              \subseteq jd_keywords
        /\ Cardinality(Missing) <= MissingShown =>
              SetOf(kw_value.matched_keywords) \cup SetOf(kw_value.missing_keywords)
                  = jd_keywords
        /\ Cardinality(Missing) > MissingShown =>
              Cardinality(SetOf(kw_value.matched_keywords)
                          \cup SetOf(kw_value.missing_keywords))
                  = Cardinality(jd_keywords) - (Cardinality(Missing) - MissingShown)

\* A call returned for a resume with one of the JD's twelve keywords: eleven
\* are missing and ten are listed.
C23_Witness ==
    /\ kw_pc = "returned"
    /\ resume_keywords \subseteq jd_keywords
    /\ Cardinality(resume_keywords) = 1
    /\ Cardinality(Missing) = 11
    /\ Len(kw_value.missing_keywords) = 10
    /\ kw_value.score > 0

\* ---------------------------------------------------------------- C24
\* C24: a _score_against_all_jds call that returns a record for n job
\* descriptions has called score_resume exactly n times, on the first, the
\* second, ... the n-th job description in that order, whatever the scores.
C24_OneCallPerJD ==
    (jd_pc = "returned" /\ ~IsRaised(jd_ret)) =>
        jd_targets = [k \in 1..jd_n |-> k]

\* ---------------------------------------------------------------- C26
\* C26: the k-th progress notification carries current = k and the k-th
\* result notification carries current = k, neither going beyond N; every
\* notification (progress, result, done) carries total = N; the latest
\* result's current never exceeds the latest progress's current; and when
\* the stream is closed both kinds have run through 1..N.
C26_Counters ==
    /\ \A k \in 1..Len(ProgressEvents) : ProgressEvents[k]["current"] = k
    /\ \A k \in 1..Len(ResultEvents) : ResultEvents[k]["current"] = k
    /\ Len(ProgressEvents) <= total /\ Len(ResultEvents) <= total
    /\ \A p \in 1..Len(events) : events[p]["total"] = total
    /\ Len(ResultEvents) > 0 =>
          /\ Len(ProgressEvents) > 0
          /\ ResultEvents[Len(ResultEvents)]["current"]
                <= ProgressEvents[Len(ProgressEvents)]["current"]
    /\ es_pc = "closed" => (Len(ProgressEvents) = total /\ Len(ResultEvents) = total)

\* Five candidates: the stream has announced the third and fourth while only
\* the first two results are out.
C26_Witness ==
    /\ total = 5
    /\ Len(ProgressEvents) = 4 /\ ProgressEvents[4]["current"] = 4
    /\ Len(ResultEvents) = 2 /\ ResultEvents[2]["current"] = 2
    /\ ResultEvents[2]["total"] = 5

\* ---------------------------------------------------------------- C27
Made(i, call) == \E k \in 1..Len(worker[i].steps) : worker[i].steps[k] = call

\* C27: on both endpoints, a worker whose download came back empty has
\* called neither extract_text nor the scorer, a worker whose extraction
\* gave no text has not called the scorer, and either returns a record with
\* Status "Failed" whose Resume Summary is "Failed: " and the message of
\* that failure (one for the download, one for the extraction in
\* _process_one_candidate, one for the extraction in _process_local_resume).
C27_ShortCircuit ==
    \A i \in DOMAIN worker :
        /\ worker[i].fate = "download" =>
              /\ worker[i].steps = <<"download_resume">>
              /\ worker[i].st = "done"
              /\ worker[i].ret["Status"] = "Failed"
              /\ worker[i].ret["Resume Summary"] = "Failed: Failed to download resume file."
        /\ worker[i].fate = "extract" =>
              /\ ~Made(i, "_score_against_all_jds")
              /\ worker[i].steps[Len(worker[i].steps)] = "extract_text"
              /\ worker[i].llm = None
              /\ worker[i].st = "done"
              /\ worker[i].ret["Status"] = "Failed"
              /\ worker[i].ret["Resume Summary"] =
                    IF IsUpload(candidates[i])
                    THEN "Failed: No text could be extracted from the file."
                    ELSE "Failed: No text could be extracted (possibly a scanned image)."
        /\ (worker[i].st = "done" /\ Made(i, "_score_against_all_jds")) =>
              worker[i].fate \notin {"download", "extract"}

\* A spreadsheet request in which the first worker's download failed and the
\* second worker's extraction gave no text.
C27_Witness ==
    /\ total >= 2
    /\ ~IsUpload(candidates[1])
    /\ worker[1].fate = "download" /\ worker[1].st = "done"
    /\ worker[2].fate = "extract" /\ worker[2].st = "done"
    /\ worker[2].steps = <<"download_resume", "extract_text">>

\* ---------------------------------------------------------------- C28
\* The record sent for candidate i: results are appended in input order.
SentRecord(i) == results[i]
OwnPhotoLink(i) == worker[i].ret["Photo Link"]

\* C28 as stated: every record sent for a candidate whose row has a
\* non-empty photo text carries that text as Photo Link, also when the
\* record is Failed, and every record of a candidate without one carries the
\* Photo Link its own worker returned, whatever the order in which the
\* round's workers finished.
C28_PhotoPairing ==
    \A i \in 1..Len(results) :
        IF candidates[i][3] # ""
        THEN SentRecord(i)["Photo Link"] = candidates[i][3]
        ELSE SentRecord(i)["Photo Link"] = OwnPhotoLink(i)

\* main.py:266: the photo texts that count as a photo.
PhotoSupplied(photo) == photo \notin {"", "nan", "None"}

\* C28 amended: as stated, for photo texts other than "nan" and "None";
\* a row whose photo text is "nan" or "None" is treated like a row without
\* a photo and keeps the Photo Link of its own worker.
C28_PhotoPairingSupplied ==
    \A i \in 1..Len(results) :
        IF PhotoSupplied(candidates[i][3])
        THEN SentRecord(i)["Photo Link"] = candidates[i][3]
        ELSE SentRecord(i)["Photo Link"] = OwnPhotoLink(i)

\* The first round is out; its second worker finished first and failed, and
\* its record carries the second row's photo.
C28_Witness ==
    /\ Len(results) = 2
    /\ finishOrder = <<2, 1>>
    /\ PhotoSupplied(candidates[2][3])
    /\ results[2]["Status"] = "Failed"
    /\ results[2]["Photo Link"] = candidates[2][3]
    /\ results[1]["Photo Link"] = "Not Found"

\* ---------------------------------------------------------------- termination
\* The three places where the backend could fail to come back, each started
\* on its own: one request of either endpoint, one llm_score call, and
\* several score_resume calls blocked on the shared scorer pool.  Every step
\* of the three is a stretch of Python code or one external call, and an
\* external call returns or raises; the asyncio loop resumes a generator
\* that can go on, the executor runs a submitted worker and a free pool
\* thread takes a queued unit.  So a behaviour does not stop while a step can
\* be taken: weak fairness of the next-state relation.
InitLive == InitPaths \/ InitLLM \/ InitPool

NextLive ==
    \/ Next
    \/ LlmEnter
    \/ OpenAIAttempt
    \/ GeminiAttempt
    \/ (sp_pc # <<>> /\ NextPool)

SpecLive == InitLive /\ [][NextLive]_vars /\ WF_vars(NextLive)

\* Every caller of score_resume has its record back.
AllCallersReturned == \A c \in DOMAIN sp_pc : sp_pc[c] = "returned"

\* Whatever was started has come back: the llm_score call has returned,
\* every score_resume call has its record, the stream has sent its done
\* event and is closed.
Terminated ==
    /\ llm_pc # "idle" => llm_pc = "returned"
    /\ sp_pc # <<>> => AllCallersReturned
    /\ es_pc # "idle" => es_pc = "closed" /\ DonePositions # {}

\* C25 (termination): an llm_score call never makes more than
\* 2 * (_MAX_RETRIES + 1) provider calls and it returns; every score_resume
\* call blocked on the scorer pool returns, whatever the order in which the
\* pool's threads take the queued units; every request's stream reaches its
\* done event.
C25_Termination ==
    /\ [](Len(calls) <= 2 * (_MAX_RETRIES + 1))
    /\ <>Terminated

\* llm_score has returned after using up every attempt of both providers.
C25_Witness ==
    /\ llm_pc = "returned"
    /\ Len(calls) = 2 * (_MAX_RETRIES + 1)
    /\ llm_ret = None

====
